------------------------------ MODULE TemplateText ------------------------------
(* The texts of content templates (src/src/templates): what createTemplate     *)
(* accepts, and what generateFromTemplate makes of a template and the values   *)
(* it is given.  Pure functions; module Templates has the rows.                *)
EXTENDS Integers, SequencesExt

CONSTANTS
    Keys,    \* the keys of variables; each stands for its placeholder, {key}
    Matches  \* the placeholders each key's regular expression matches

(* A text is a sequence of parts: a placeholder, a piece without any, or a     *)
(* break between paragraphs.  It has no other braces than its placeholders'.   *)
Piece == "piece"
Break == "break"

(* What String.replace does not take as it is, in the text it puts in: a       *)
(* dollar sign and an ampersand, a backquote, a quote or another dollar sign.  *)
TheMatch == "$match"
TheTextBefore == "$before"
TheTextAfter == "$after"
TheDollar == "$dollar"

ASSUME TextAssumption ==
    /\ IsFiniteSet(Keys)
    /\ Keys \cap {Piece, Break, TheMatch, TheTextBefore, TheTextAfter, TheDollar} = {}
    /\ Matches \in [Keys -> SUBSET Keys]

(* <<>> stands for whatever JavaScript takes for false: '', 0, false, null.    *)
Part == Keys \cup {Piece}
Values == Seq(Part \cup {TheMatch, TheTextBefore, TheTextAfter, TheDollar})

(* The rules of a variable; a length of 0 is no rule.  Pattern and options     *)
(* together let some values through.                                           *)
VariableValidation == [minLength : Nat, maxLength : Nat, allowed : SUBSET Values]

(* The default is a set of one value, or of none.                              *)
TemplateVariable ==
    [required : BOOLEAN, default : {{}} \cup {{value} : value \in Values}, validation : VariableValidation]

(* Hashtags or a call to action that are missing are empty; a list of hashtags *)
(* that is there and empty, which adds a break, is left out.                   *)
TemplateStructure ==
    [caption : Seq(Part), hashtags : Seq(Seq(Part)), cta : Seq(Part),
     variables : UNION {[K -> TemplateVariable] : K \in SUBSET Keys}]

TemplateContent == [structure : TemplateStructure, tone : BOOLEAN]

(* The values of a request, by key, and its options.                           *)
Variables == UNION {[K -> Values] : K \in SUBSET Keys}
Options == [includeHashtags : BOOLEAN, includeCTA : BOOLEAN]
Entries(variables) == SetToSeqs(DOMAIN variables)

-------------------------------------------------------------------------------
ValidateTemplateContent(content) ==
    /\ content.structure.caption # <<>>
    /\ content.tone
    /\ LET defined == content.structure.variables IN
       \A key \in DOMAIN defined : defined[key].required => defined[key].default # {}

ValidateVariableValue(value, validation) ==
    /\ validation.minLength # 0 => Len(value) >= validation.minLength
    /\ validation.maxLength # 0 => Len(value) <= validation.maxLength
    /\ value \in validation.allowed

(* A value is missing when it is false.                                        *)
Given(variables, key) == key \in DOMAIN variables /\ variables[key] # <<>>

ValidateTemplateVariables(content, variables) ==
    LET defined == content.structure.variables IN
    \A key \in DOMAIN defined :
        IF Given(variables, key)
        THEN ValidateVariableValue(variables[key], defined[key].validation)
        ELSE ~defined[key].required

(* What a value becomes where it replaces the i-th part of a text.             *)
Expanded(value, text, i) ==
    FlattenSeq([j \in DOMAIN value |->
        CASE value[j] = TheMatch      -> <<text[i]>>
          [] value[j] = TheTextBefore -> SubSeq(text, 1, i - 1)
          [] value[j] = TheTextAfter  -> SubSeq(text, i + 1, Len(text))
          [] value[j] = TheDollar     -> <<Piece>>
          [] OTHER                    -> <<value[j]>>])

(* The key goes into the regular expression as it is, without escapes, and the *)
(* value into String.replace.  (A key whose expression is none throws, and one *)
(* may span several placeholders: these are left out.)                         *)
Replace(text, key, value) ==
    FlattenSeq([i \in DOMAIN text |-> IF text[i] \in Matches[key] THEN Expanded(value, text, i)
                                                                  ELSE <<text[i]>>])

(* The placeholders are replaced one key after the other, in the order of the  *)
(* entries; what a value brings in may be replaced by a later one.             *)
ReplaceEach(text, variables, entries) ==
    LET filled[i \in 0..Len(entries)] ==
            IF i = 0 THEN text ELSE Replace(filled[i - 1], entries[i], variables[entries[i]])
    IN filled[Len(entries)]

FillTemplate(content, variables, entries, options) ==
    LET structure == content.structure
        Filled(text) == ReplaceEach(text, variables, entries)
        tags == [i \in DOMAIN structure.hashtags |-> Filled(structure.hashtags[i])]
    IN
    Filled(structure.caption)
      \o (IF options.includeHashtags /\ tags # <<>> THEN <<Break>> \o FlattenSeq(tags) ELSE <<>>)
      \o (IF options.includeCTA /\ structure.cta # <<>> THEN <<Break>> \o Filled(structure.cta) ELSE <<>>)

(* The default, if it is not false, or an example for the type.                *)
DefaultExampleValue == <<Piece>>
ExampleValue(variable) ==
    IF variable.default \in {{}, {<<>>}} THEN DefaultExampleValue
                                         ELSE CHOOSE value \in variable.default : TRUE

ExampleVariables(defined) == [key \in DOMAIN defined |-> ExampleValue(defined[key])]

GenerateExample(content, entries) ==
    FillTemplate(content, ExampleVariables(content.structure.variables), entries,
                 [includeHashtags |-> TRUE, includeCTA |-> TRUE])

-------------------------------------------------------------------------------
(* Values that are put in as they are, for keys that match their placeholder   *)
(* and no other.  Nothing in the code sees to it: the match as a value puts    *)
(* the placeholder back, "{url}" brings in another one, and the expression of  *)
(* a key with parentheses does not match its own.                              *)
PlainVariables(variables) ==
    \A key \in DOMAIN variables : Matches[key] = {key} /\ variables[key] \in Seq({Piece})

(* An example shows no placeholder of any variable of the template.            *)
ExampleIsFilled(content) ==
    LET defined == content.structure.variables IN
    \A entries \in Entries(defined) :
        ToSet(GenerateExample(content, entries)) \cap DOMAIN defined = {}

(* A text shows none that has a value and none of a required variable, and the *)
(* order of the values does not matter.                                        *)
TextIsFilled(content, variables) ==
    LET defined == content.structure.variables
        required == {key \in DOMAIN defined : defined[key].required}
    IN
    \A options \in Options :
        LET texts == {FillTemplate(content, variables, entries, options) :
                         entries \in Entries(variables)} IN
        /\ \A text \in texts : ToSet(text) \cap (required \cup DOMAIN variables) = {}
        /\ \A text, other \in texts : text = other

===============================================================================
