----------------------------- MODULE Signatures -----------------------------
(***************************************************************************)
(* generateSignature: the name under which the search groups crashes, made *)
(* of the crashing thread's frames.  Text is a sequence of tokens: a word, *)
(* a bracket, a comma, a space, an address.                                *)
(***************************************************************************)
EXTENDS Integers, SequencesExt

CONSTANTS
    Crashes,    \* what the stackwalker may say of the crashing thread
    Lists,      \* contents of the three files of regular expressions
    MaxFrames   \* 40: frames that are looked at

ASSUME FramesAssumption == MaxFrames \in Nat \ {0}

ASSUME CrashesAssumption ==
    \A c \in Crashes : c.thread \in {"known", "absent", "beyond"} /\ Len(c.frames) \in Nat

VARIABLES
    crash,      \* [thread, frames]: known, absent or beyond the list, and its frames
    lists,      \* [irrelevant, trimDll, prefix]: tokens that match; {} matches everything
    pc,
    list,       \* signatureList, the normalized frames
    at,         \* frames of the list already looked at
    chosen,     \* newSignatureList
    signature   \* processedCrash["signature"], or none

vars == <<crash, lists, pc, list, at, chosen, signature>>

None == <<>>

Init ==
    /\ crash \in Crashes /\ lists \in Lists
    /\ pc = "threads" /\ list = <<>> /\ at = 0 /\ chosen = <<>> /\ signature = None

-----------------------------------------------------------------------------
(* normalizeSignature. *)

AppendAtDepthOne(out, depth, c) == IF depth <= 1 THEN Append(out, c) ELSE out

AppendIfNotInCollapseMode(out, depth, c) == IF depth = 0 THEN Append(out, c) ELSE out

\* A bracket is let be before "name omitted", and wherever the text begins with it.
IsCollapseException(f, i) == (i < Len(f) /\ f[i + 1] = "name omitted") \/ (i > 1 /\ f[1] = "name omitted")

\* One round of collapse's loop.  What follows an unbalanced bracket is dropped.
CollapseOne(f, st, i) ==
    CASE f[i] = "<" /\ IsCollapseException(f, i) ->
           [st EXCEPT !.exception = TRUE, !.out = AppendIfNotInCollapseMode(@, st.depth, "<")]
      [] f[i] = "<" /\ ~IsCollapseException(f, i) ->
           [st EXCEPT !.depth = @ + 1, !.out = AppendIfNotInCollapseMode(@, st.depth, "<")]
      [] f[i] = ">" /\ st.exception ->
           [st EXCEPT !.exception = FALSE, !.out = AppendIfNotInCollapseMode(@, st.depth, "T>")]
      [] f[i] = ">" /\ ~st.exception ->
           [st EXCEPT !.depth = @ - 1, !.out = AppendIfNotInCollapseMode(@, st.depth - 1, "T>")]
      [] OTHER -> [st EXCEPT !.out = AppendIfNotInCollapseMode(@, st.depth, f[i])]

Collapse(f) == FoldLeftDomain(LAMBDA st, i : CollapseOne(f, st, i),
                              [out |-> <<>>, depth |-> 0, exception |-> FALSE], f).out

TightTokens == {"*", "&"}

NoSpaceBefore == {"*", "&", ","}

DropSpaces(s) == FoldLeftDomain(
    LAMBDA out, i : IF i < Len(s) /\ s[i] = " " /\ s[i + 1] \in NoSpaceBefore THEN out ELSE Append(out, s[i]),
    <<>>, s)

AddSpaces(s) == FoldLeftDomain(
    LAMBDA out, i : IF i < Len(s) /\ s[i] = "," /\ s[i + 1] # " " THEN out \o <<",", " ">> ELSE Append(out, s[i]),
    <<>>, s)

Spaced(s) == AddSpaces(DropSpaces(s))

BeforeFirst(s, token) ==
    LET i == SelectInSeq(s, LAMBDA t : t = token) IN IF i = 0 THEN s ELSE SubSeq(s, 1, i - 1)

Separators == {"/", "\\"}

TrimSeparators(s) == SubSeq(s, 1, SelectLastInSeq(s, LAMBDA t : t \notin Separators))

\* A path without the separators at its end is cut at its first backslash or, having none, at
\* its first slash: of an absolute one nothing is left, and a bare name stays.
FileOf(path) ==
    LET file == TrimSeparators(path)
    IN  BeforeFirst(file, IF "\\" \in ToSet(file) THEN "\\" ELSE "/")

\* A name before the function, the function before the file, the file before the address.
NormalizeSignature(frame) ==
    CASE frame.kind = "normalized" -> frame.text
      [] frame.kind = "function"   -> Spaced(Collapse(frame.text) \o <<":line">>)
      [] frame.kind = "file"       -> FileOf(frame.text) \o <<"#line">>
      [] frame.kind = "offset"     -> <<"@">> \o frame.text
      [] frame.kind = "module"     -> <<frame.text[1], "@", frame.text[2]>>

\* The text of a function is a sequence of tokens.
ASSUME FunctionsAssumption == \A c \in Crashes : \A i \in 1 .. Len(c.frames) :
    c.frames[i].kind = "function" => c.frames[i].text \in Seq(ToSet(c.frames[i].text))

\* Normalizing leaves text of every frame: a function has its line, a module its address.
ASSUME TextAssumption == \A c \in Crashes : \A i \in 1 .. Len(c.frames) :
    c.frames[i].kind # "plain" => NormalizeSignature(c.frames[i]) # None

-----------------------------------------------------------------------------
(* The crashing thread. *)

NotSigned == UNCHANGED <<crash, lists, list, at, chosen>>

\* Without crash_info, crashing_thread or threads there is no signature; an index outside
\* the threads panics.
FindThread ==
    /\ pc = "threads"
    /\ pc' = IF crash.thread = "known" THEN "frames" ELSE crash.thread
    /\ NotSigned /\ UNCHANGED signature

IsOneTooMany(n) == n > MaxFrames

IsEnough(n) == n >= MaxFrames

\* createFramelist: the first MaxFrames frames; one that is no object empties the list.
NextFrame ==
    /\ pc = "frames" /\ Len(list) < Len(crash.frames) /\ ~IsEnough(Len(list))
    /\ LET frame == crash.frames[Len(list) + 1]
       IN  IF frame.kind = "plain" THEN list' = <<>> /\ pc' = "sign"
           ELSE list' = Append(list, NormalizeSignature(frame)) /\ UNCHANGED pc
    /\ UNCHANGED <<crash, lists, at, chosen, signature>>

EndFrames ==
    /\ pc = "frames" /\ (Len(list) = Len(crash.frames) \/ IsEnough(Len(list)))
    /\ pc' = "sign" /\ NotSigned /\ UNCHANGED signature

-----------------------------------------------------------------------------
(* internalGenerateSignature. *)

\* An empty file, or one with an invalid expression, matches everything.
Matches(tokens, s) == tokens = {} \/ ToSet(s) \cap tokens # {}

\* What is before the first @.
TrimDll(s) == BeforeFirst(s, "@")

Trimmed(s) == IF Matches(lists.trimDll, s) THEN TrimDll(s) ELSE s

IsRepeated(s) == Matches(lists.trimDll, s) /\ chosen # <<>> /\ Last(chosen) = TrimDll(s)

Goes(s) == Matches(lists.irrelevant, s) \/ IsRepeated(s)

GoesOn(s) == ~Matches(lists.prefix, s)

IsPrefixSignature(s) == Matches(lists.prefix, s)

Skip ==
    /\ pc = "sign" /\ at < Len(list) /\ Goes(list[at + 1])
    /\ at' = at + 1 /\ UNCHANGED <<crash, lists, pc, list, chosen, signature>>

Choose ==
    /\ pc = "sign" /\ at < Len(list) /\ ~Goes(list[at + 1])
    /\ LET s == Trimmed(list[at + 1])
       IN  chosen' = Append(chosen, s) /\ pc' = IF IsPrefixSignature(s) THEN pc ELSE "join"
    /\ at' = at + 1 /\ UNCHANGED <<crash, lists, list, signature>>

EndList == pc = "sign" /\ at = Len(list) /\ pc' = "join" /\ NotSigned /\ UNCHANGED signature

IsNothing(c) == c = <<>>

\* Nothing but text that was trimmed away counts as nothing.
NoText(c) == c \in {<<>>, <<None>>}

NoFrames == <<"EMPTY: no frame data available">>

Join ==
    /\ pc = "join" /\ pc' = "done"
    /\ signature' = IF ~NoText(chosen) THEN chosen ELSE IF list # <<>> THEN <<list[1]>> ELSE <<NoFrames>>
    /\ NotSigned

Next == FindThread \/ NextFrame \/ EndFrames \/ Skip \/ Choose \/ EndList \/ Join

Spec == Init /\ [][Next]_vars

-----------------------------------------------------------------------------
(* Properties. *)

\* The lists hold text, and only what was listed is chosen.
TypeOK ==
    /\ crash.thread \in {"known", "absent", "beyond"} /\ lists \in Lists
    /\ at \in 0 .. Len(list) /\ Len(list) <= MaxFrames
    /\ pc \in {"threads", "frames", "sign", "join", "done", "absent", "beyond"}
    /\ \A s \in ToSet(chosen) : \E t \in ToSet(list) : s \in {t, TrimDll(t)}

\* Brackets opened and not closed by the first i tokens.
Depth(f, i)  == Cardinality({j \in 1 .. i : f[j] = "<"}) - Cardinality({j \in 1 .. i : f[j] = ">"})
Balanced(f)  == (\A i \in 1 .. Len(f) : Depth(f, i) >= 0) /\ Depth(f, Len(f)) = 0
Outside(f)   == FlattenSeq([i \in 1 .. Len(f) |->
    IF Depth(f, i - 1) = 0 THEN <<f[i]>> ELSE IF Depth(f, i) = 0 THEN <<"T>">> ELSE <<>>])

\* The brackets of a template and no others: those of "operator<" do not match.
Templated(f) == Balanced(f) /\ "name omitted" \notin ToSet(f)

\* The function whose frame was normalized last.
Functions == {i \in DOMAIN list : pc = "frames" /\ i = Len(list) /\ crash.frames[i].kind = "function"}
Text(i)   == crash.frames[i].text

\* A function keeps what is outside its template arguments, and of each argument list the
\* brackets: instances of one template are one signature.
CollapsedIsOutside == \A i \in Functions :
    Templated(Text(i)) => list[i] = Spaced(Outside(Text(i)) \o <<":line">>)

\* No space before a comma or a pointer, and none after a comma.
Squeezed(f) == FlattenSeq([i \in 1 .. Len(f) |->
    IF f[i] = " " /\ ((i < Len(f) /\ f[i + 1] \in {"*", "&", ","}) \/ (i > 1 /\ f[i - 1] = ",")) THEN <<>>
    ELSE <<f[i]>>])

\* Spaces around commas and before pointers do not make two signatures of one function,
\* as long as no two spaces follow each other.  Where brackets do not match, what is left out
\* between two spaces makes them follow each other.
SpellingsAgree == \A i \in Functions : LET f == Text(i) IN
    (Templated(f) /\ \A j \in 1 .. Len(f) - 1 : f[j] # " " \/ f[j + 1] # " ")
    => list[i] = NormalizeSignature([kind |-> "function", text |-> Squeezed(f)])

Relevant == {i \in DOMAIN list : ~Matches(lists.irrelevant, list[i])}
Stops    == {i \in Relevant : ~Matches(lists.prefix, Trimmed(list[i]))}

\* The signature has every relevant frame down to the first one that is not a prefix, and
\* nothing below it: prefix frames are coupled with what follows, and an irrelevant or a
\* repeated frame in between does not part them.
SignatureIsRelevant == (pc = "done" /\ ~NoText(chosen)) =>
    LET used == {i \in Relevant : \A j \in Stops : i <= j}
    IN  /\ ToSet(signature) = {Trimmed(list[i]) : i \in used}
        /\ \A k \in 1 .. Len(signature) - 1 : Matches(lists.prefix, signature[k])

\* Every crash whose thread is known has a signature with text in it, even if all of its
\* frames are irrelevant, trimmed away, or missing.
NeverEmpty == pc = "done" => \E s \in ToSet(signature) : s # None
=============================================================================
