------------------------------ MODULE ParseProofs ------------------------------
(***************************************************************************)
(* The nest_saves of parse_regex are those of the open groups, whatever    *)
(* the pattern, and every named group is counted, however often (?|        *)
(* starts to count again.  For both, what the rest of an item does is of   *)
(* no importance: a step opens a group, closes one, starts a branch, sets  *)
(* options, or leaves groups and saves alone.                              *)
(***************************************************************************)
EXTENDS Pcre2Parse, TLAPS

-------------------------------------------------------------------------------
(* What a step can do to groups and saves.                                 *)

Idle == UNCHANGED <<nests, nest_depth, bracount, names>>
Deeper == nest_depth <= PARENS_NEST_LIMIT /\ nest_depth' = nest_depth + 1
Opens == Deeper /\ UNCHANGED <<nests, bracount, names>>
\* A group of the next number, which may have a name.
OpensCounted ==
    /\ Deeper /\ UNCHANGED nests
    /\ ~(bracount >= MAX_GROUP_NUMBER) /\ bracount' = bracount + 1
    /\ \/ names' = names
       \/ \E name : \E dup \in BOOLEAN :
            names' = Append(names, [name |-> name, n |-> bracount + 1, dup |-> dup])
Flags == {"", "CONDASSERT", "ATOMICSR", "RESET"}
OpensSaved ==
    /\ Deeper /\ ~NoRoom /\ UNCHANGED <<bracount, names>>
    /\ \E flag \in Flags :
         nests' = Append(nests, Save(nest_depth + 1, flag, IF flag = "RESET" THEN bracount ELSE 0))
\* (?i), for the group around.
SavesHere ==
    /\ ~NoRoom /\ UNCHANGED <<nest_depth, bracount, names>>
    /\ nests' = NestsForOptions(TRUE)
Branches ==
    LET resets == InNest /\ top.flag = "RESET"
    IN  /\ UNCHANGED <<nest_depth, names>>
        /\ nests' = IF resets /\ bracount > top.max
                    THEN [nests EXCEPT ![Len(nests)].max = bracount] ELSE nests
        /\ bracount' = IF resets THEN top.reset ELSE bracount
Closes ==
    /\ nest_depth # 0 /\ nest_depth' = nest_depth - 1
    /\ nests' = IF InNest THEN Front(nests) ELSE nests
    /\ bracount' = HighestOfBranches
    /\ UNCHANGED names
ScopeStep ==
    \/ Idle \/ Opens \/ OpensCounted \/ OpensSaved \/ SavesHere \/ Branches \/ Closes

\* An error, or an item that neither opens nor closes a group.
LEMMA FailIdles == ASSUME NEW err, Fail(err) PROVE Idle
BY DEF Fail, Idle, scope, groups
\* An item that is taken without opening a group.
LEMMA TakeOnlyIdles ==
    ASSUME NEW items, NEW to, NEW repeatable, TakeOnly(items, to, repeatable)
    PROVE  Idle
BY DEF TakeOnly, Idle, scope, groups
\* An item that opens a group.
LEMMA TakeGroupOpens ==
    ASSUME AtItem, NEW items, NEW to, TakeGroup(items, to)
    PROVE  Opens
BY DEF AtItem, TakeGroup, Opens, Deeper, groups

\* Quoted text, names, literals and quantifiers.
LEMMA QuotedIdles == Quoted => Idle
BY DEF Quoted, Idle, scope, groups
\* A character in the name of a verb.
LEMMA VerbNameIdles == VerbName => Idle
<1>. SUFFICES ASSUME VerbName PROVE Idle
    OBVIOUS
<1>1. ASSUME NEW items, NEW to, NEW quoted, NEW repeatable,
             NameItems(items, to, quoted, repeatable)
      PROVE  Idle
    BY <1>1 DEF NameItems, Idle, scope, groups
<1>2. EndOfName => Idle
    BY FailIdles DEF EndOfName, Idle, scope, groups
<1>3. ASSUME NEW e, NameEscape(e) PROVE Idle
    BY <1>1, <1>3, FailIdles DEF NameEscape
<1>. QED BY <1>1, <1>2, <1>3 DEF VerbName
\* \Q and \E, white space and comments.
LEMMA SkipsIdle == QuoteMark \/ ExtendedSpace \/ Comment => Idle
<1>1. ASSUME NEW to, SkipTo(to) PROVE Idle
    BY <1>1 DEF SkipTo, Idle, scope, groups
<1>. QED BY <1>1, FailIdles DEF QuoteMark, ExtendedSpace, Comment
\* An escape, whatever it stands for.
LEMMA EscapeIdles == EscapeSequence => Idle
<1>. SUFFICES ASSUME EscapeSequence PROVE Idle
    OBVIOUS
<1>1. PICK e : EscapeAs(e)
    BY DEF EscapeSequence
<1>2. ASSUME NEW found, TakeEscape(found) PROVE Idle
    BY <1>2, FailIdles, TakeOnlyIdles DEF TakeEscape
<1>. QED BY <1>1, <1>2, TakeOnlyIdles DEF EscapeAs
\* A literal and the characters that stand alone.
LEMMA CharactersIdle == Literal \/ Circumflex \/ Dollar \/ Dot \/ LiteralPattern => Idle
BY TakeOnlyIdles DEF Literal, Circumflex, Dollar, Dot, LiteralPattern, Idle, scope, groups
\* A quantifier, a brace that is none, and a possessive or lazy sign.
LEMMA QuantifiersIdle == Quantifier \/ Brace \/ Modifier => Idle
<1>1. ASSUME NEW items, NEW quantifier, NEW to, Repeated(items, quantifier, to) PROVE Idle
    BY <1>1 DEF Repeated, Idle, scope, groups
<1>2. Quantifier => Idle
    BY <1>1, FailIdles DEF Quantifier
<1>3. Brace => Idle
    BY FailIdles, TakeOnlyIdles DEF Brace
<1>4. Modifier => Idle
    BY DEF Modifier, Idle, scope, groups
<1>. QED BY <1>2, <1>3, <1>4
\* What follows the last character.
LEMMA EndIdles == End => Idle
BY FailIdles DEF End, Idle, scope, groups

\* Classes.
LEMMA ContinueIdles ==
    ASSUME NEW items, NEW cl, NEW to, Continue(items, cl, to)
    PROVE  Idle
BY FailIdles DEF Continue, ContinueQuoted, Idle, scope, groups
\* A character of a class, with the range it may end.
LEMMA AddLiteralIdles ==
    ASSUME NEW code, NEW to, NEW isLiteral, AddLiteral(code, to, isLiteral)
    PROVE  Idle
BY FailIdles, ContinueIdles DEF AddLiteral
\* A set in a class: a POSIX name, a type or a property.
LEMMA AddSetIdles ==
    ASSUME NEW item, NEW to, AddSet(item, to)
    PROVE  Idle
BY FailIdles, ContinueIdles DEF AddSet
\* The end of the outermost class.
LEMMA EndClassIdles ==
    ASSUME NEW items, NEW to, EndClass(items, to)
    PROVE  Idle
BY DEF EndClass, Idle, scope, groups
\* A bracket in a class.
LEMMA ClassOpenIdles == ClassOpen => Idle
<1>. SUFFICES ASSUME ClassOpen PROVE Idle
    OBVIOUS
<1>1. ASSUME NEW items, NEW negated, NEW to, EmptyClass(items, negated, to) PROVE Idle
    BY <1>1, ContinueIdles, EndClassIdles DEF EmptyClass
<1>2. ASSUME NEW items, NEW negated, NEW at, NEW new, EnterClass(items, negated, at, new)
      PROVE  Idle
    BY <1>2, ContinueIdles DEF EnterClass
<1>3. ASSUME NEW new, NEW first, ClassOpenTo(new, first) PROVE Idle
    BY <1>1, <1>2, <1>3, FailIdles DEF ClassOpenTo
<1>. QED BY <1>3, FailIdles DEF ClassOpen
\* An escape in a class.
LEMMA ClassEscapeIdles == ClassEscape => Idle
<1>. SUFFICES ASSUME ClassEscape PROVE Idle
    OBVIOUS
<1>1. PICK e : EscapeInClass(e)
    BY DEF ClassEscape, ClassEscapeAs
<1>2. ASSUME NEW escape, NEW read, ClassProperty(escape, read) PROVE Idle
    BY <1>2, FailIdles, AddSetIdles DEF ClassProperty
<1>3. CASE e.k = "esc"
    BY <1>1, <1>2, <1>3, FailIdles, AddLiteralIdles, AddSetIdles
       DEF EscapeInClass, ContinueQuoted, Idle, scope, groups
<1>. QED BY <1>1, <1>3, FailIdles, AddLiteralIdles DEF EscapeInClass
\* All the steps of the loop over a class.
LEMMA ClassIdles == Class => Idle
<1>1. WordBoundary => Idle
    BY TakeOnlyIdles DEF WordBoundary
<1>2. ASSUME NEW at, NEW m, StartClassAt(at, m) PROVE Idle
    BY <1>2 DEF StartClassAt, Idle, scope, groups
<1>3. StartClass \/ StartPerlClass => Idle
    BY <1>2, FailIdles DEF StartClass, StartPerlClass
<1>4. ClassLiteral \/ ClassForbidden \/ ClassSpace \/ ClassHyphen => Idle
    BY FailIdles, AddLiteralIdles, ContinueIdles
       DEF ClassLiteral, ClassForbidden, ClassSpace, ClassHyphen
<1>5. ClassQuoted => Idle
    BY FailIdles, AddLiteralIdles DEF ClassQuoted, ContinueQuoted, Idle, scope, groups
<1>6. ClassPosix => Idle
    BY FailIdles, AddSetIdles DEF ClassPosix
<1>7. ClassClose => Idle
    BY FailIdles, ContinueIdles, EndClassIdles DEF ClassClose, CloseInner
<1>8. ASSUME NEW meta, NEW now, NEW to, AddOperator(meta, now, to) PROVE Idle
    BY <1>8, ContinueIdles DEF AddOperator
<1>9. ClassOperator \/ ClassNot => Idle
    BY <1>8, FailIdles DEF ClassOperator, ClassNot
<1>. QED BY <1>1, <1>3, <1>4, <1>5, <1>6, <1>7, <1>9, ClassOpenIdles, ClassEscapeIdles DEF Class

\* Parentheses.
LEMMA NewGroupOpens ==
    ASSUME AtItem, NEW items, NEW to, NEW list, NewGroup(items, to, list),
           ~(bracount >= MAX_GROUP_NUMBER),
           \/ list = names
           \/ \E name : \E dup \in BOOLEAN :
                list = Append(names, [name |-> name, n |-> bracount + 1, dup |-> dup])
    PROVE  OpensCounted
BY DEF AtItem, NewGroup, OpensCounted, Deeper
\* A group with a nest_save of its own.
LEMMA SavedOpens ==
    ASSUME AtItem, ~NoRoom, NEW flag \in Flags, NEW reset,
           reset = IF flag = "RESET" THEN bracount ELSE 0,
           nests' = Append(nests, Save(nest_depth + 1, flag, reset)),
           nest_depth' = nest_depth + 1, UNCHANGED <<bracount, names>>
    PROVE  ScopeStep
<1>1. Deeper
    BY DEF AtItem, Deeper
<1>. QED BY <1>1 DEF OpensSaved, ScopeStep
\* A lookaround saves only when it is the condition of a group.
LEMMA LookaroundOpens ==
    ASSUME AtItem, NEW items, NEW to, LookaroundTo(items, to)
    PROVE  ScopeStep
<1>1. CASE expect_cond_assert > 0 /\ NoRoom
    BY <1>1, FailIdles DEF LookaroundTo, ScopeStep
<1>2. CASE expect_cond_assert > 0 /\ ~NoRoom
  <2>1. /\ nests' = Append(nests, Save(nest_depth + 1, "CONDASSERT", 0))
        /\ nest_depth' = nest_depth + 1 /\ UNCHANGED <<bracount, names>>
      BY <1>2 DEF LookaroundTo, groups
  <2>. QED BY <1>2, <2>1, SavedOpens DEF Flags
<1>3. CASE ~(expect_cond_assert > 0)
    BY <1>3, TakeGroupOpens DEF LookaroundTo, ScopeStep
<1>. QED BY <1>1, <1>2, <1>3
\* A plain parenthesis, capturing or not.
LEMMA OpenGroupSteps == OpenGroup => ScopeStep
<1>. SUFFICES ASSUME OpenGroup PROVE ScopeStep
    OBVIOUS
<1>1. AtItem
    BY DEF OpenGroup, Paren
<1>. QED BY <1>1, FailIdles, TakeGroupOpens, NewGroupOpens DEF OpenGroup, Unclosed, ScopeStep
\* (*pla: and the other named lookarounds.
LEMMA OpenAlphaSteps == OpenAlpha => ScopeStep
<1>. SUFFICES ASSUME OpenAlpha PROVE ScopeStep
    OBVIOUS
<1>1. AtItem
    BY DEF OpenAlpha, Paren
<1>2. ASSUME NEW list, ScanSubstring(list) PROVE ScopeStep
    BY <1>1, <1>2, FailIdles, LookaroundOpens DEF ScanSubstring, ScopeStep
<1>3. ASSUME NEW to, AtomicScriptRun(to) PROVE ScopeStep
  <2>1. CASE NoRoom
      BY <1>3, <2>1, FailIdles DEF AtomicScriptRun, ScopeStep
  <2>2. CASE ~NoRoom
    <3>1. /\ nests' = Append(nests, Save(nest_depth + 1, "ATOMICSR", 0))
          /\ nest_depth' = nest_depth + 1 /\ UNCHANGED <<bracount, names>>
        BY <1>3, <2>2 DEF AtomicScriptRun, groups
    <3>. QED BY <1>1, <2>2, <3>1, SavedOpens DEF Flags
  <2>. QED BY <2>1, <2>2
<1>4. ASSUME NEW meta, NEW to, AlphaAs(meta, to) PROVE ScopeStep
    BY <1>1, <1>2, <1>3, <1>4, FailIdles, TakeGroupOpens, LookaroundOpens DEF AlphaAs, ScopeStep
<1>. QED BY <1>4, FailIdles DEF OpenAlpha, Unclosed, ScopeStep
\* A verb is no group.
LEMMA OpenVerbIdles == OpenNothing \/ OpenVerb => Idle
<1>1. ASSUME NEW meta, NEW to, VerbAlone(meta, to) PROVE Idle
    BY <1>1 DEF VerbAlone, Idle, scope, groups
<1>2. ASSUME NEW meta, NEW kind, NEW to, VerbWithName(meta, kind, to) PROVE Idle
    BY <1>2 DEF VerbWithName, Idle, scope, groups
<1>. QED BY <1>1, <1>2, FailIdles, TakeOnlyIdles DEF OpenNothing, OpenVerb
\* (?| saves bracount and opens a group.
LEMMA OpenResetSteps == OpenReset => ScopeStep
<1>. SUFFICES ASSUME OpenReset PROVE ScopeStep
    OBVIOUS
<1>1. CASE NoRoom
    BY <1>1, FailIdles DEF OpenReset, ScopeStep
<1>2. CASE ~NoRoom
  <2>1. /\ nests' = Append(nests, Save(nest_depth + 1, "RESET", bracount))
        /\ nest_depth' = nest_depth + 1 /\ UNCHANGED <<bracount, names>>
        /\ AtItem
      BY <1>2 DEF OpenReset, PerlGroup, Paren, groups
  <2>. QED BY <1>2, <2>1, SavedOpens DEF Flags
<1>. QED BY <1>1, <1>2
\* (?i) saves for the group around, (?i: for the one it opens.
LEMMA SetOptionsSteps == SetOptions => ScopeStep
<1>. SUFFICES ASSUME SetOptions PROVE ScopeStep
    OBVIOUS
<1>1. AtItem
    BY DEF SetOptions, PerlGroup, Paren
<1>2. PICK closed \in BOOLEAN :
         \/ \E err : Fail(err)
         \/ /\ ~NoRoom
            /\ nests' = NestsForOptions(closed)
            /\ nest_depth' = IF closed THEN nest_depth ELSE nest_depth + 1
            /\ UNCHANGED groups
  <2>. DEFINE set == ReadOptions(text, IF Kind = "^" THEN ptr + 3 ELSE ptr + 2, Kind # "^")
              closes == Ch(text, set.at) = ")"
  <2>1. closes \in BOOLEAN
      OBVIOUS
  <2>. QED BY <2>1 DEF SetOptions, Unclosed
<1>3. CASE \E err : Fail(err)
    BY <1>3, FailIdles DEF ScopeStep
<1>4. CASE closed /\ ~\E err : Fail(err)
  <2>1. closed = TRUE
      BY <1>4
  <2>. QED BY <1>2, <1>4, <2>1 DEF SavesHere, ScopeStep, groups
<1>5. CASE ~closed /\ ~\E err : Fail(err)
  <2>1. nests' = Append(nests, Save(nest_depth + 1, "", 0)) /\ nest_depth' = nest_depth + 1
      BY <1>2, <1>5 DEF NestsForOptions
  <2>. QED BY <1>1, <1>2, <1>5, <2>1, SavedOpens DEF Flags, groups
<1>. QED BY <1>2, <1>3, <1>4, <1>5
\* Recursions and references are written without a group.
LEMMA ReferencesIdle ==
    RecurseAll \/ RecurseNumber \/ RecurseName \/ PythonReference \/ OpenUnclosed => Idle
<1>1. ASSUME NEW item, NEW list, RecurseWith(item, list) PROVE Idle
    BY <1>1, FailIdles, TakeOnlyIdles DEF RecurseWith, Unclosed
<1>2. ASSUME NEW item, NEW at, RecurseTo(item, at) PROVE Idle
    BY <1>1, <1>2 DEF RecurseTo
<1>. QED BY <1>2, FailIdles, TakeOnlyIdles
         DEF RecurseAll, RecurseNumber, RecurseName, PythonReference, OpenUnclosed, Unclosed
\* So is a callout.
LEMMA CalloutIdles == Callout => Idle
<1>1. ASSUME NEW items, NEW item, NEW to, CalloutTo(items, item, to) PROVE Idle
    BY <1>1 DEF CalloutTo, Idle, scope, groups
<1>. QED BY <1>1, FailIdles DEF Callout, Unclosed
\* A condition, be it an assertion, a number, a name or a version.
LEMMA ConditionSteps == OpenCondAssert \/ OpenCondition => ScopeStep
<1>1. OpenCondAssert => ScopeStep
    BY DEF OpenCondAssert, PerlGroup, Paren, AtItem, Opens, Deeper, ScopeStep, groups
<1>2. ASSUME AtItem, NEW item, NEW at, ConditionTo(item, at) PROVE ScopeStep
    BY <1>2, FailIdles, TakeGroupOpens DEF ConditionTo, ScopeStep
<1>3. ASSUME AtItem, NEW at, ConditionVersion(at) \/ ConditionName(at) PROVE ScopeStep
    BY <1>2, <1>3, FailIdles DEF ConditionVersion, ConditionName, ScopeStep
<1>4. OpenCondition => ScopeStep
    BY <1>2, <1>3, FailIdles DEF OpenCondition, PerlGroup, Paren, Unclosed, ScopeStep
<1>. QED BY <1>1, <1>4
\* (?>, (?= and (?<=.
LEMMA GroupSteps == OpenAtomic \/ OpenLookahead \/ OpenLookbehind => ScopeStep
<1>1. OpenAtomic \/ OpenLookahead \/ OpenLookbehind => AtItem
    BY DEF OpenAtomic, OpenLookahead, OpenLookbehind, PerlGroup, Paren
<1>. QED BY <1>1, TakeGroupOpens, LookaroundOpens
         DEF OpenAtomic, OpenLookahead, OpenLookbehind, ScopeStep
\* AddName appends the new name, or finds it with the same number.
LEMMA NamesGrow ==
    ASSUME NEW name, NEW n, AddName(names, name, n).err = 0
    PROVE  \/ AddName(names, name, n).names = names
           \/ \E dup \in BOOLEAN :
                AddName(names, name, n).names = Append(names, [name |-> name, n |-> n, dup |-> dup])
<1>. DEFINE with(dup) == Append(names, [name |-> name, n |-> n, dup |-> dup])
<1>1. \/ AddName(names, name, n) = [err |-> 0, names |-> names]
      \/ AddName(names, name, n) = [err |-> 0, names |-> with(TRUE)]
      \/ AddName(names, name, n) = [err |-> 0, names |-> with(FALSE)]
      \/ AddName(names, name, n) = [err |-> 65, names |-> <<>>]
      \/ AddName(names, name, n) = [err |-> 43, names |-> <<>>]
    BY Zenon DEF AddName, Refused
<1>2. PICK err, list : /\ AddName(names, name, n) = [err |-> err, names |-> list]
                       /\ err \in {43, 65} \/ list \in {names, with(TRUE), with(FALSE)}
    BY <1>1, Zenon
<1>. HIDE DEF with
<1>3. err = 0 /\ AddName(names, name, n).names = list
  <2>. DEFINE new == AddName(names, name, n)
  <2>1. new = [err |-> err, names |-> list] /\ new.err = 0
      BY <1>2
  <2>. HIDE DEF new
  <2>2. err = 0 /\ new.names = list
      BY <2>1
  <2>. QED BY <2>2 DEF new
<1>4. list \in {names, with(TRUE), with(FALSE)}
  <2>1. err \notin {43, 65}
      BY <1>3
  <2>. QED BY <1>2, <2>1, Zenon
<1>. QED BY <1>3, <1>4, Zenon DEF with
\* A named group: a new number, for a new name or for one more of a name.
LEMMA OpenNamedSteps == Len(names) \in Nat /\ OpenNamed => ScopeStep
<1>. SUFFICES ASSUME Len(names) \in Nat, OpenNamed PROVE ScopeStep
    OBVIOUS
<1>1. AtItem
    BY DEF OpenNamed, PerlGroup, Paren
<1>. DEFINE at == IF Kind = "P" THEN ptr + 3 ELSE ptr + 2
            name == read_name(text, at, TerminatorOf[Ch(text, at)])
            added == AddName(names, name.v, bracount + 1)
<1>2. \/ Fail(name.err) \/ Fail(97) \/ Fail(49) \/ Fail(added.err)
      \/ /\ added.err = 0 /\ ~(bracount >= MAX_GROUP_NUMBER)
         /\ NewGroup(<<>>, name.at, added.names)
  <2>1. MAX_NAME_COUNT \in Nat
      BY ParseAssumption
  <2>2. Len(names) >= MAX_NAME_COUNT \/ Len(names) < MAX_NAME_COUNT
      BY <2>1
  <2>. HIDE DEF name, added
  <2>3. CASE /\ PerlGroup /\ name.ok /\ ~(name.ok /\ bracount >= MAX_GROUP_NUMBER)
      BY <2>2, <2>3 DEF OpenNamed, name, added
  <2>. QED BY <2>3 DEF OpenNamed, name, added
<1>. HIDE DEF name
<1>. QED BY <1>1, <1>2, FailIdles, NamesGrow, NewGroupOpens DEF ScopeStep
\* A new branch.
LEMMA AlternationSteps == Alternation => Branches
BY DEF Alternation, Branches
\* A closing parenthesis.
LEMMA CloseGroupSteps == CloseGroup => ScopeStep
BY FailIdles DEF CloseGroup, Closes, ScopeStep

\* Every step of the parser does one of the seven things.
LEMMA StepsAreScopeSteps == Len(names) \in Nat /\ [Next]_vars => ScopeStep
<1>. SUFFICES ASSUME Len(names) \in Nat, [Next]_vars PROVE ScopeStep
    OBVIOUS
<1>1. CASE UNCHANGED vars
    BY <1>1 DEF vars, scope, groups, Idle, ScopeStep
<1>2. CASE Group
    BY <1>2, OpenGroupSteps, OpenAlphaSteps, OpenVerbIdles, OpenResetSteps, SetOptionsSteps,
       ReferencesIdle, CalloutIdles, ConditionSteps, GroupSteps, OpenNamedSteps,
       AlternationSteps, CloseGroupSteps DEF Group, ScopeStep
<1>3. ASSUME Next, ~Group PROVE ScopeStep
    BY <1>3, FailIdles, QuotedIdles, VerbNameIdles, SkipsIdle, EscapeIdles, CharactersIdle,
       QuantifiersIdle, EndIdles, ClassIdles
       DEF Next, NestTooDeep, NoCondAssert, ScopeStep
<1>. QED BY <1>1, <1>2, <1>3

-------------------------------------------------------------------------------
(* The inductive invariant.                                                *)

NestSave == [depth : Nat, flag : Flags, reset : 0..MAX_GROUP_NUMBER,
             max : 0..MAX_GROUP_NUMBER, options : SUBSET TrackedOptions]
\* A group number that counting has not forgotten: it is in the count, or in the
\* highest of an open (?| whose branches count again from a lower one.
IsCounted(n) ==
    n <= bracount \/ \E j \in DOMAIN nests : nests[j].flag = "RESET" /\ n <= nests[j].max
CountsOK ==
    /\ bracount \in 0..MAX_GROUP_NUMBER
    /\ nests \in Seq(NestSave)
    /\ names \in Seq({names[i] : i \in DOMAIN names})
IInv ==
    /\ CountsOK
    /\ SavesAreInStep
    /\ \A i \in DOMAIN nests : nests[i].flag = "RESET" => nests[i].depth # 0
    /\ \A i \in DOMAIN names : names[i].n \in Nat \ {0} /\ IsCounted(names[i].n)

\* The greatest group number is a number.
LEMMA MaxIsNat == MAX_GROUP_NUMBER \in Nat
BY DEF MAX_GROUP_NUMBER

\* The types in the form the steps below use.
LEMMA SavesAreTyped ==
    ASSUME CountsOK
    PROVE  /\ bracount \in Nat /\ bracount <= MAX_GROUP_NUMBER
           /\ Len(nests) \in Nat /\ DOMAIN nests = 1..Len(nests)
           /\ Len(names) \in Nat /\ DOMAIN names = 1..Len(names)
           /\ \A i \in DOMAIN nests : /\ nests[i] \in NestSave
                                     /\ nests[i].depth \in Nat /\ nests[i].flag \in Flags
                                     /\ nests[i].reset \in 0..MAX_GROUP_NUMBER
                                     /\ nests[i].max \in 0..MAX_GROUP_NUMBER
<1>1. \A i \in DOMAIN nests : nests[i] \in NestSave
    BY DEF CountsOK
<1>2. \A s \in NestSave : /\ s.depth \in Nat /\ s.flag \in Flags
                          /\ s.reset \in 0..MAX_GROUP_NUMBER /\ s.max \in 0..MAX_GROUP_NUMBER
    BY DEF NestSave
<1>. QED BY <1>1, <1>2, MaxIsNat DEF CountsOK

\* At the start there is no group, no save and no name.
LEMMA InitIInv == Init => IInv
<1>. SUFFICES ASSUME Init PROVE IInv
    OBVIOUS
<1>1. nest_depth = 0 /\ bracount = 0 /\ nests = <<>> /\ names = <<>>
    BY Zenon DEF Init
<1>2. CountsOK
    BY <1>1, MaxIsNat DEF CountsOK
<1>3. SavesAreInStep
    BY <1>1, ParseAssumption DEF SavesAreInStep
<1>. QED BY <1>1, <1>2, <1>3 DEF IInv

\* A step that leaves groups and saves alone.
LEMMA IdleKeeps == IInv /\ Idle => IInv'
BY Zenon DEF Idle, IInv, CountsOK, SavesAreInStep, IsCounted
\* One group more around the saves there are.
LEMMA DeeperInStep ==
    ASSUME IInv, Deeper, UNCHANGED nests
    PROVE  SavesAreInStep'
<1>1. nest_depth \in Nat /\ nest_depth' = nest_depth + 1 /\ nest_depth <= PARENS_NEST_LIMIT
    BY ParseAssumption DEF IInv, Deeper, SavesAreInStep
<1>2. nest_depth' \in 0..(PARENS_NEST_LIMIT + 1)
    BY <1>1, ParseAssumption
<1>3. \A i \in DOMAIN nests : nests[i].depth \in Nat /\ nests[i].depth <= nest_depth
    BY SavesAreTyped DEF IInv, SavesAreInStep
<1>4. \A i \in DOMAIN nests : nests[i].depth <= nest_depth'
    BY <1>1, <1>3
<1>. QED BY <1>2, <1>4 DEF IInv, SavesAreInStep
\* A group without number and save.
LEMMA OpensKeeps == IInv /\ Opens => IInv'
<1>. SUFFICES ASSUME IInv, Opens PROVE IInv'
    OBVIOUS
<1>1. UNCHANGED <<nests, bracount, names>>
    BY DEF Opens
<1>2. SavesAreInStep'
    BY DeeperInStep DEF Opens
<1>. QED BY <1>1, <1>2, Zenon DEF IInv, CountsOK, IsCounted
\* A numbered group: bracount only grows, and its name gets the new number.
LEMMA OpensCountedKeeps == IInv /\ OpensCounted => IInv'
<1>. SUFFICES ASSUME IInv, OpensCounted PROVE IInv'
    OBVIOUS
<1>1. CountsOK /\ bracount \in Nat /\ bracount < MAX_GROUP_NUMBER
    BY MaxIsNat, SavesAreTyped DEF IInv, OpensCounted
<1>2. bracount' = bracount + 1 /\ nests' = nests /\ SavesAreInStep'
    BY DeeperInStep DEF OpensCounted
<1>3. \A n \in Nat : IsCounted(n) => IsCounted(n)'
    BY <1>1, <1>2 DEF IsCounted
<1>4. bracount' \in 0..MAX_GROUP_NUMBER /\ IsCounted(bracount)'
    BY <1>1, <1>2, MaxIsNat DEF IsCounted
<1>. USE DEF IInv, CountsOK
<1>5. CASE names' = names
    BY <1>1, <1>2, <1>3, <1>4, <1>5
<1>6. ASSUME NEW name, NEW dup,
             names' = Append(names, [name |-> name, n |-> bracount + 1, dup |-> dup])
      PROVE  IInv'
  <2>. DEFINE new == [name |-> name, n |-> bracount + 1, dup |-> dup]
              all == {names[i] : i \in DOMAIN names}
  <2>1. new.n = bracount + 1 /\ new.n \in Nat \ {0}
      BY <1>1
  <2>. HIDE DEF new
  <2>2. names' = Append(names, new)
      BY <1>6 DEF new
  <2>3. /\ DOMAIN names' = 1..(Len(names) + 1)
        /\ \A i \in 1..Len(names) : names'[i] = names[i]
        /\ names'[Len(names) + 1] = new
        /\ DOMAIN names = 1..Len(names) /\ Len(names) \in Nat
      BY <2>2
  <2>4. names' \in Seq(all \cup {new})
      BY <2>2
  <2>5. names' \in Seq({names'[i] : i \in DOMAIN names'})
      BY <2>4
  <2>6. (\A i \in DOMAIN names : names[i].n \in Nat \ {0} /\ IsCounted(names[i].n))'
    <3>1. SUFFICES ASSUME NEW i \in DOMAIN names', NEW n, n = names'[i].n
                   PROVE  n \in Nat \ {0} /\ IsCounted(n)'
        OBVIOUS
    <3>2. CASE i \in 1..Len(names)
        BY <1>3, <2>3, <3>1, <3>2
    <3>3. CASE i = Len(names) + 1
      <4>1. n = bracount'
          BY <1>2, <2>1, <2>3, <3>1, <3>3
      <4>. QED BY <1>1, <1>2, <1>4, <4>1
    <3>. QED BY <2>3, <3>1, <3>2, <3>3
  <2>. QED BY <1>1, <1>2, <1>4, <2>5, <2>6
<1>. QED BY <1>5, <1>6 DEF OpensCounted

\* One more save, deeper than the others.
LEMMA SavingKeeps ==
    ASSUME IInv, ~NoRoom, UNCHANGED <<bracount, names>>,
           NEW save \in NestSave, nests' = Append(nests, save),
           nest_depth' \in 0..(PARENS_NEST_LIMIT + 1), nest_depth <= nest_depth',
           save.depth <= nest_depth',
           \A i \in DOMAIN nests : nests[i].depth < save.depth,
           save.flag = "RESET" => save.depth # 0
    PROVE  IInv'
<1>1. /\ Len(nests) \in Nat /\ DOMAIN nests = 1..Len(nests)
      /\ \A i \in DOMAIN nests : nests[i].depth \in Nat /\ nests[i].depth <= nest_depth
      /\ nest_depth \in Nat /\ nest_depth' \in Nat /\ save.depth \in Nat
    BY SavesAreTyped, ParseAssumption DEF IInv, SavesAreInStep, NestSave
<1>2. /\ nests' \in Seq(NestSave) /\ Len(nests') = Len(nests) + 1
      /\ DOMAIN nests' = 1..(Len(nests) + 1)
      /\ \A i \in 1..Len(nests) : nests'[i] = nests[i]
      /\ nests'[Len(nests) + 1] = save
    BY DEF IInv, CountsOK
<1>3. SavesAreInStep'
  <2>1. Len(nests') <= MAX_NESTS
    <3>1. MAX_NESTS \in Nat /\ Len(nests) <= MAX_NESTS /\ Len(nests) # MAX_NESTS
        BY ParseAssumption DEF IInv, SavesAreInStep, NoRoom
    <3>2. \A n, m \in Nat : n <= m /\ n # m => n + 1 <= m
        OBVIOUS
    <3>3. Len(nests) \in Nat /\ Len(nests') = Len(nests) + 1
        BY <1>1, <1>2, Zenon
    <3>. QED BY <3>1, <3>2, <3>3, Zenon
  <2>2. ASSUME NEW i \in DOMAIN nests', NEW j \in 1..(i - 1)
        PROVE  nests'[i].depth <= nest_depth' /\ nests'[j].depth < nests'[i].depth
    <3>1. i \in 1..(Len(nests) + 1) /\ j \in 1..Len(nests)
        BY <1>1, <1>2, <2>2
    <3>2. CASE i \in 1..Len(nests)
        BY <1>1, <1>2, <3>1, <3>2 DEF IInv, SavesAreInStep
    <3>3. CASE i = Len(nests) + 1
        BY <1>1, <1>2, <3>1, <3>3
    <3>. QED BY <1>1, <3>1, <3>2, <3>3
  <2>3. ASSUME NEW i \in DOMAIN nests' PROVE nests'[i].depth <= nest_depth'
    <3>1. CASE i \in 1..Len(nests)
        BY <1>1, <1>2, <3>1
    <3>2. CASE i = Len(nests) + 1
        BY <1>2, <3>2
    <3>. QED BY <1>1, <1>2, <3>1, <3>2
  <2>. QED BY <2>1, <2>2, <2>3 DEF SavesAreInStep
<1>4. \A i \in DOMAIN nests' : nests'[i].flag = "RESET" => nests'[i].depth # 0
  <2>1. \A i \in 1..Len(nests) : nests'[i].flag = "RESET" => nests'[i].depth # 0
      BY <1>1, <1>2 DEF IInv
  <2>2. \A i \in 1..(Len(nests) + 1) : i \in 1..Len(nests) \/ i = Len(nests) + 1
      BY <1>1
  <2>. QED BY <1>2, <2>1, <2>2
<1>5. \A n : IsCounted(n) => IsCounted(n)'
  <2>1. \A j \in DOMAIN nests : j \in DOMAIN nests' /\ nests'[j] = nests[j]
      BY <1>1, <1>2
  <2>. QED BY <2>1 DEF IsCounted
<1>. QED BY <1>2, <1>3, <1>4, <1>5, Zenon DEF IInv, CountsOK

\* The fields of a new save.
LEMMA SaveIsNestSave ==
    ASSUME NEW depth \in Nat, NEW flag \in Flags, NEW reset \in 0..MAX_GROUP_NUMBER
    PROVE  /\ Save(depth, flag, reset) \in NestSave
           /\ Save(depth, flag, reset).depth = depth /\ Save(depth, flag, reset).flag = flag
BY DEF Save, NestSave
\* A group with a save, one deeper than all others.
LEMMA OpensSavedKeeps == IInv /\ OpensSaved => IInv'
<1>. SUFFICES ASSUME IInv, OpensSaved PROVE IInv'
    OBVIOUS
<1>1. PICK flag \in Flags :
        nests' = Append(nests, Save(nest_depth + 1, flag, IF flag = "RESET" THEN bracount ELSE 0))
    BY DEF OpensSaved
<1>2. PICK reset \in 0..MAX_GROUP_NUMBER :
        nests' = Append(nests, Save(nest_depth + 1, flag, reset))
  <2>1. bracount \in 0..MAX_GROUP_NUMBER /\ 0 \in 0..MAX_GROUP_NUMBER
      BY MaxIsNat DEF IInv, CountsOK
  <2>. QED BY <1>1, <2>1
<1>3. /\ nest_depth \in Nat /\ nest_depth' = nest_depth + 1
      /\ nest_depth' \in 0..(PARENS_NEST_LIMIT + 1)
    BY ParseAssumption DEF IInv, SavesAreInStep, OpensSaved, Deeper
<1>4. \A i \in DOMAIN nests : nests[i].depth < nest_depth + 1
    BY <1>3, SavesAreTyped DEF IInv, SavesAreInStep
<1>. DEFINE save == Save(nest_depth + 1, flag, reset)
<1>5. save \in NestSave /\ save.depth = nest_depth + 1
    BY <1>3, SaveIsNestSave
<1>. HIDE DEF save
<1>6. nests' = Append(nests, save)
    BY <1>2 DEF save
<1>. QED BY <1>3, <1>4, <1>5, <1>6, SavingKeeps DEF OpensSaved
\* (?i): a second save at this depth is never made, the first is used again.
LEMMA SavesHereKeeps == IInv /\ SavesHere => IInv'
<1>. SUFFICES ASSUME IInv, SavesHere PROVE IInv'
    OBVIOUS
<1>. DEFINE save == [Save(nest_depth + 1, "", 0) EXCEPT !.depth = nest_depth]
            has == nests # <<>> /\ Last(nests).depth = nest_depth
<1>1. nests' = IF has THEN nests ELSE Append(nests, save)
    BY DEF SavesHere, NestsForOptions
<1>2. CASE has
    BY <1>1, <1>2, IdleKeeps DEF SavesHere, Idle
<1>3. CASE ~has
  <2>1. nest_depth \in 0..(PARENS_NEST_LIMIT + 1) /\ nest_depth \in Nat
      BY ParseAssumption DEF IInv, SavesAreInStep
  <2>2. /\ save \in NestSave /\ save.depth = nest_depth /\ save.flag # "RESET"
    <3>. DEFINE first == Save(nest_depth + 1, "", 0)
    <3>1. first \in NestSave /\ first.flag = ""
      <4>1. nest_depth + 1 \in Nat /\ "" \in Flags /\ 0 \in 0..MAX_GROUP_NUMBER
          BY <2>1, MaxIsNat DEF Flags
      <4>. QED BY <4>1, SaveIsNestSave
    <3>. HIDE DEF first
    <3>2. /\ [first EXCEPT !.depth = nest_depth] \in NestSave
          /\ [first EXCEPT !.depth = nest_depth].depth = nest_depth
          /\ [first EXCEPT !.depth = nest_depth].flag = ""
        BY <2>1, <3>1 DEF NestSave
    <3>. QED BY <3>2 DEF first
  <2>3. \A i \in DOMAIN nests : nests[i].depth < nest_depth
    <3>1. SUFFICES ASSUME NEW i \in DOMAIN nests PROVE nests[i].depth < nest_depth
        OBVIOUS
    <3>2. /\ Len(nests) \in Nat /\ DOMAIN nests = 1..Len(nests)
          /\ \A j \in DOMAIN nests : nests[j].depth \in Nat /\ nests[j].depth <= nest_depth
        BY SavesAreTyped DEF IInv, SavesAreInStep
    <3>3. nests[Len(nests)].depth # nest_depth
        BY <1>3, <3>1, <3>2 DEF Last
    <3>4. CASE i = Len(nests)
        BY <2>1, <3>2, <3>3, <3>4
    <3>5. CASE i # Len(nests)
      <4>1. Len(nests) \in DOMAIN nests /\ i \in 1..(Len(nests) - 1)
          BY <3>1, <3>2, <3>5
      <4>2. nests[i].depth < nests[Len(nests)].depth
          BY <4>1 DEF IInv, SavesAreInStep
      <4>. QED BY <2>1, <3>1, <3>2, <4>1, <4>2
    <3>. QED BY <3>4, <3>5
  <2>. HIDE DEF save
  <2>4. nests' = Append(nests, save) /\ nest_depth' = nest_depth
      BY <1>1, <1>3 DEF SavesHere
  <2>5. nest_depth' \in 0..(PARENS_NEST_LIMIT + 1) /\ nest_depth <= nest_depth'
        /\ save.depth <= nest_depth'
      BY <2>1, <2>2, <2>4
  <2>. QED BY <2>2, <2>3, <2>4, <2>5, SavingKeeps DEF SavesHere
<1>. QED BY <1>2, <1>3

\* A branch: what (?| has counted so far is kept before it counts again.
LEMMA BranchesKeep == IInv /\ Branches => IInv'
<1>. SUFFICES ASSUME IInv, Branches PROVE IInv'
    OBVIOUS
<1>1. CASE ~(InNest /\ top.flag = "RESET")
    BY <1>1, IdleKeeps DEF Branches, Idle
<1>2. CASE InNest /\ top.flag = "RESET"
  <2>. DEFINE n == Len(nests)
              high == IF bracount > nests[n].max THEN bracount ELSE nests[n].max
  <2>1. /\ n \in Nat /\ DOMAIN nests = 1..n /\ n \in DOMAIN nests
        /\ nests[n] \in NestSave /\ nests[n].flag = "RESET" /\ top = nests[n]
        /\ nests[n].reset \in 0..MAX_GROUP_NUMBER /\ nests[n].max \in 0..MAX_GROUP_NUMBER
        /\ bracount \in 0..MAX_GROUP_NUMBER
      BY <1>2, SavesAreTyped, MaxIsNat DEF IInv, CountsOK, InNest, top, Last
  <2>2. high \in 0..MAX_GROUP_NUMBER /\ bracount <= high /\ nests[n].max <= high
      BY <2>1, MaxIsNat
  <2>3. /\ nests' = [nests EXCEPT ![n].max = high]
        /\ bracount' = nests[n].reset /\ UNCHANGED <<nest_depth, names>>
    <3>1. nests = [nests EXCEPT ![n].max = nests[n].max]
      <4>1. nests[n] = [nests[n] EXCEPT !.max = nests[n].max]
          BY <2>1 DEF NestSave
      <4>. QED BY <2>1, <4>1 DEF IInv, CountsOK
    <3>. QED BY <1>2, <2>1, <3>1 DEF Branches
  <2>. HIDE DEF high
  <2>4. /\ nests' \in Seq(NestSave) /\ Len(nests') = n /\ DOMAIN nests' = DOMAIN nests
        /\ \A i \in DOMAIN nests : i # n => nests'[i] = nests[i]
        /\ nests'[n] = [nests[n] EXCEPT !.max = high]
    <3>1. [nests[n] EXCEPT !.max = high] \in NestSave
        BY <2>1, <2>2 DEF NestSave
    <3>. QED BY <2>1, <2>3, <3>1 DEF IInv, CountsOK
  <2>5. /\ nests'[n].depth = nests[n].depth /\ nests'[n].flag = "RESET"
        /\ nests'[n].max = high
      BY <2>1, <2>4 DEF NestSave
  <2>6. \A i \in DOMAIN nests : nests'[i].depth = nests[i].depth /\ nests'[i].flag = nests[i].flag
      BY <2>1, <2>4, <2>5
  <2>7. SavesAreInStep'
    <3>1. \A i \in DOMAIN nests : \A j \in 1..(i - 1) : j \in DOMAIN nests
        BY <2>1
    <3>. QED BY <2>3, <2>4, <2>6, <3>1 DEF IInv, SavesAreInStep
  <2>8. ASSUME NEW k \in Nat, IsCounted(k) PROVE IsCounted(k)'
    <3>1. CASE k <= bracount \/ k <= nests[n].max
      <4>1. k <= nests'[n].max
          BY <2>1, <2>2, <2>5, <3>1
      <4>. QED BY <2>1, <2>4, <2>5, <4>1 DEF IsCounted
    <3>2. CASE ~(k <= bracount \/ k <= nests[n].max)
      <4>1. PICK j \in DOMAIN nests : nests[j].flag = "RESET" /\ k <= nests[j].max
          BY <2>8, <3>2 DEF IsCounted
      <4>. QED BY <2>4, <3>2, <4>1 DEF IsCounted
    <3>. QED BY <3>1, <3>2
  <2>. QED BY <2>1, <2>3, <2>4, <2>6, <2>7, <2>8 DEF IInv, CountsOK
<1>. QED BY <1>1, <1>2

\* The end of a group: its save goes with it, and so does the highest number
\* of a (?|, which is the count from now on.
LEMMA ClosesKeeps == IInv /\ Closes => IInv'
<1>. SUFFICES ASSUME IInv, Closes PROVE IInv'
    OBVIOUS
<1>. DEFINE n == Len(nests)
<1>1. /\ n \in Nat /\ DOMAIN nests = 1..n /\ bracount \in 0..MAX_GROUP_NUMBER
      /\ \A i \in DOMAIN nests : /\ nests[i].depth \in Nat /\ nests[i].depth <= nest_depth
                                /\ nests[i].max \in 0..MAX_GROUP_NUMBER
      /\ nest_depth \in Nat /\ nest_depth # 0 /\ nest_depth' = nest_depth - 1
    BY SavesAreTyped, ParseAssumption DEF IInv, CountsOK, SavesAreInStep, Closes
<1>2. nest_depth' \in 0..(PARENS_NEST_LIMIT + 1)
    BY <1>1, ParseAssumption DEF IInv, SavesAreInStep
<1>3. CASE ~InNest
  <2>1. nests' = nests /\ bracount' = bracount /\ names' = names
      BY <1>3 DEF Closes, HighestOfBranches
  <2>2. \A i \in DOMAIN nests : nests[i].depth <= nest_depth'
    <3>1. SUFFICES ASSUME NEW i \in DOMAIN nests PROVE nests[i].depth # nest_depth
        BY <1>1
    <3>2. nests[n].depth # nest_depth /\ n \in DOMAIN nests
        BY <1>1, <1>3, <3>1 DEF InNest, Last
    <3>3. CASE i # n
      <4>1. i \in 1..(n - 1)
          BY <1>1, <3>1, <3>3
      <4>2. nests[i].depth < nests[n].depth
          BY <3>2, <4>1 DEF IInv, SavesAreInStep
      <4>. QED BY <1>1, <3>2, <4>2
    <3>. QED BY <3>2, <3>3
  <2>3. SavesAreInStep'
      BY <1>2, <2>1, <2>2 DEF IInv, SavesAreInStep
  <2>. QED BY <2>1, <2>3, Zenon DEF IInv, CountsOK, IsCounted
<1>4. CASE InNest
  <2>1. n \in DOMAIN nests /\ nests[n].depth = nest_depth /\ top = nests[n]
      BY <1>1, <1>4 DEF InNest, top, Last, IInv, CountsOK
  <2>2. /\ nests' \in Seq(NestSave) /\ Len(nests') = n - 1 /\ DOMAIN nests' = 1..(n - 1)
        /\ \A i \in 1..(n - 1) : nests'[i] = nests[i] /\ i \in DOMAIN nests
    <3>1. nests' = SubSeq(nests, 1, n - 1)
        BY <1>4 DEF Closes, Front
    <3>. QED BY <1>1, <2>1, <3>1 DEF IInv, CountsOK
  <2>3. SavesAreInStep'
    <3>1. \A i \in 1..(n - 1) : nests[i].depth < nests[n].depth
        BY <2>1 DEF IInv, SavesAreInStep
    <3>2. \A i \in 1..(n - 1) : nests[i].depth <= nest_depth'
      <4>1. ASSUME NEW i \in 1..(n - 1) PROVE nests[i].depth <= nest_depth - 1
        <5>1. nests[i].depth \in Nat /\ nests[i].depth < nest_depth
            BY <1>1, <2>1, <2>2, <3>1
        <5>. QED BY <1>1, <5>1
      <4>. QED BY <1>1, <4>1
    <3>3. Len(nests') <= MAX_NESTS
        BY <1>1, <2>2, ParseAssumption DEF IInv, SavesAreInStep
    <3>4. \A i \in 1..(n - 1) : \A j \in 1..(i - 1) :
             j \in 1..(n - 1) /\ nests[j].depth < nests[i].depth
      <4>1. ASSUME NEW i \in 1..(n - 1), NEW j \in 1..(i - 1)
            PROVE  j \in 1..(n - 1) /\ i \in DOMAIN nests
          BY <1>1, <2>2
      <4>. QED BY <4>1 DEF IInv, SavesAreInStep
    <3>. QED BY <1>2, <2>2, <3>2, <3>3, <3>4 DEF SavesAreInStep
  <2>4. /\ bracount' \in 0..MAX_GROUP_NUMBER /\ bracount <= bracount'
        /\ nests[n].flag = "RESET" => nests[n].max <= bracount'
      BY <1>1, <1>4, <2>1, MaxIsNat DEF Closes, HighestOfBranches
  <2>5. ASSUME NEW k \in Nat, IsCounted(k) PROVE IsCounted(k)'
    <3>1. CASE k <= bracount
        BY <1>1, <2>4, <3>1, MaxIsNat DEF IsCounted
    <3>2. CASE ~(k <= bracount)
      <4>1. PICK j \in DOMAIN nests : nests[j].flag = "RESET" /\ k <= nests[j].max
          BY <2>5, <3>2 DEF IsCounted
      <4>2. CASE j = n
          BY <1>1, <2>1, <2>4, <4>1, <4>2, MaxIsNat DEF IsCounted
      <4>3. CASE j # n
        <5>1. j \in 1..(n - 1)
            BY <1>1, <4>3
        <5>. QED BY <2>2, <4>1, <5>1 DEF IsCounted
      <4>. QED BY <4>2, <4>3
    <3>. QED BY <3>1, <3>2
  <2>. QED BY <2>2, <2>3, <2>4, <2>5 DEF IInv, CountsOK, Closes
<1>. QED BY <1>3, <1>4
\* The inductive invariant is kept by every step.
LEMMA IInvStep == IInv /\ [Next]_vars => IInv'
<1>. SUFFICES ASSUME IInv, [Next]_vars PROVE IInv'
    OBVIOUS
<1>1. ScopeStep
    BY StepsAreScopeSteps, SavesAreTyped DEF IInv
<1>. QED BY <1>1, IdleKeeps, OpensKeeps, OpensCountedKeeps, OpensSavedKeeps, SavesHereKeeps,
            BranchesKeep, ClosesKeeps DEF ScopeStep

-------------------------------------------------------------------------------
(* The theorems.                                                           *)

\* Every reachable state satisfies the invariant.
THEOREM Invariance == Spec => []IInv
BY InitIInv, IInvStep, PTL DEF Spec

\* The nest_saves stay in the workspace and in step with the open groups.
THEOREM NestsFit == Spec => []SavesAreInStep
<1>1. IInv => SavesAreInStep
    BY DEF IInv
<1>. QED BY <1>1, Invariance, PTL

\* What is counted at the end has room for every name.
THEOREM NamesHaveRoom == Spec => []NamesAreCounted
<1>1. IInv => NamesAreCounted
  <2>. SUFFICES ASSUME IInv, nest_depth = 0, NEW i \in DOMAIN names
                PROVE  names[i].n \in 1..bracount
      BY DEF NamesAreCounted
  <2>1. \A j \in DOMAIN nests : nests[j].flag # "RESET"
    <3>1. \A j \in DOMAIN nests : nests[j].depth \in Nat /\ nests[j].depth <= 0
        BY SavesAreTyped DEF IInv, SavesAreInStep
    <3>. QED BY <3>1 DEF IInv
  <2>2. names[i].n \in Nat \ {0} /\ names[i].n <= bracount
      BY <2>1 DEF IInv, IsCounted
  <2>. QED BY <2>2, SavesAreTyped DEF IInv
<1>. QED BY <1>1, Invariance, PTL

\* The number of groups and what a nest_save keeps of it.
NumbersFit ==
    /\ bracount \in 0..MAX_GROUP_NUMBER
    /\ \A i \in DOMAIN nests : {nests[i].reset, nests[i].max} \subseteq 0..MAX_GROUP_NUMBER
\* Both fit in the 16 bits to which pcre2_compile.c:5013-5014 and 5825 convert them,
\* whatever the pattern: nothing is cut off when a (?| saves or restores them.
THEOREM GroupNumbersFit == Spec => []NumbersFit
<1>1. IInv => NumbersFit
    BY SavesAreTyped, MaxIsNat DEF IInv, NumbersFit
<1>. QED BY <1>1, Invariance, PTL
===============================================================================
