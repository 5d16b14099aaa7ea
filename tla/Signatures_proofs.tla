------------------------- MODULE Signatures_proofs -------------------------
(* What holds of the signature of every crash, however many frames it has, *)
(* whatever their text and whatever the regular expressions match.         *)
EXTENDS Signatures, Induction

-----------------------------------------------------------------------------
(* The inductive invariant. *)

Framed == {i \in 1 .. Len(crash.frames) : crash.frames[i].kind # "plain"}
Texts  == {NormalizeSignature(crash.frames[i]) : i \in Framed}
Signed == Texts \cup {TrimDll(t) : t \in Texts}

ShapeOK ==
    /\ crash \in Crashes /\ lists \in Lists
    /\ list \in Seq(Texts) /\ Len(list) <= MaxFrames /\ at \in 0 .. Len(list)
    /\ chosen \in Seq(Signed)
    /\ pc \in {"threads", "frames", "sign", "join", "done", "absent", "beyond"}
    /\ pc \in {"threads", "frames", "absent", "beyond"} => at = 0 /\ Len(chosen) = 0

\* The choice has every relevant frame that was looked at, and a prefix before each of its
\* members but the first.
ChoiceInv ==
    /\ \A i \in Relevant : i <= at => \E k \in DOMAIN chosen : chosen[k] = Trimmed(list[i])
    /\ \A k \in DOMAIN chosen : \E i \in Relevant : i <= at /\ chosen[k] = Trimmed(list[i])
    /\ \A k \in DOMAIN chosen : k < Len(chosen) => Matches(lists.prefix, chosen[k])
    /\ pc = "sign" => /\ \A k \in DOMAIN chosen : Matches(lists.prefix, chosen[k])
                      /\ \A j \in Stops : at < j

\* The frames that were looked at end with the first one that is not a prefix.
EndInv ==
    /\ pc \in {"join", "done"} => \A i \in Relevant : i <= at <=> \A j \in Stops : i <= j
    /\ pc = "done" => signature = IF ~NoText(chosen) THEN chosen ELSE IF list # <<>> THEN <<list[1]>> ELSE <<NoFrames>>

\* Two frames with nothing left do not follow each other.
TextInv ==
    /\ \A i \in DOMAIN list : list[i] # None
    /\ Len(chosen) <= 1 \/ \E k \in DOMAIN chosen : chosen[k] # None

-----------------------------------------------------------------------------
(* Lists. *)

\* The members of a list that grows.
LEMMA Appended ==
  ASSUME NEW S, NEW q \in Seq(S), NEW e \in S, NEW r, r = Append(q, e)
  PROVE  /\ r \in Seq(S) /\ Len(r) = Len(q) + 1 /\ Len(q) \in Nat
         /\ DOMAIN r = 1 .. Len(r) /\ DOMAIN q = 1 .. Len(q)
         /\ r[Len(r)] = e /\ \A k \in DOMAIN q : k \in DOMAIN r /\ r[k] = q[k]
  OBVIOUS

\* A trimmed frame is the frame or what is before its @.
LEMMA TrimmedIs == \A s : Trimmed(s) \in {s, TrimDll(s)}
  BY DEF Trimmed

\* A frame that is listed was made of one of the crash.
LEMMA ListedIsText == ASSUME ShapeOK, NEW i \in 1 .. Len(list) PROVE list[i] \in Texts /\ Trimmed(list[i]) \in Signed
  <1>1. list[i] \in Texts
    BY DEF ShapeOK
  <1> QED
    BY <1>1, TrimmedIs DEF Signed

-----------------------------------------------------------------------------
(* Steps. *)

\* The shape of the state.
LEMMA NextShape == ASSUME ShapeOK, [Next]_vars PROVE ShapeOK'
  <1>1. list \in Seq(Texts) /\ chosen \in Seq(Signed) /\ Len(list) \in Nat /\ at \in 0 .. Len(list)
    BY DEF ShapeOK
  <1>2. UNCHANGED <<crash, lists>>
    BY DEF Next, vars, FindThread, NextFrame, EndFrames, Skip, Choose, EndList, Join, NotSigned
  <1>3. Texts' = Texts
    BY <1>2 DEF Texts, Framed
  <1>4. Signed' = Signed
    BY <1>3 DEF Signed
  <1>5. crash.thread \in {"known", "absent", "beyond"} /\ Len(crash.frames) \in Nat
    BY CrashesAssumption DEF ShapeOK
  <1>6. pc' \in {"threads", "frames", "sign", "join", "done", "absent", "beyond"}
    BY <1>5 DEF ShapeOK, Next, vars, FindThread, NextFrame, EndFrames, Skip, Choose, EndList, Join
  <1>7. MaxFrames \in Nat /\ Len(list) <= MaxFrames
    BY FramesAssumption DEF ShapeOK
  <1>8. /\ list' \in Seq(Texts) /\ chosen' \in Seq(Signed)
        /\ Len(list') <= MaxFrames /\ at' \in 0 .. Len(list')
        /\ pc' \in {"threads", "frames", "absent", "beyond"} => at' = 0 /\ Len(chosen') = 0
    <2>1. CASE NextFrame
      <3>1. pc = "frames" /\ pc' \in {"frames", "sign"} /\ at' = at /\ chosen' = chosen
        BY <2>1 DEF NextFrame
      <3>2. at = 0 /\ Len(chosen) = 0
        BY <3>1 DEF ShapeOK
      <3>3. list' \in Seq(Texts) /\ Len(list') <= MaxFrames
        <4>1. CASE list' = <<>>
          BY <1>7, <4>1
        <4>2. CASE /\ list' = Append(list, NormalizeSignature(crash.frames[Len(list) + 1]))
                   /\ crash.frames[Len(list) + 1].kind # "plain"
          <5>1. Len(list) + 1 \in 1 .. Len(crash.frames) /\ Len(list) < MaxFrames
            BY <1>1, <1>5, <1>7, <2>1 DEF NextFrame, IsEnough
          <5>2. NormalizeSignature(crash.frames[Len(list) + 1]) \in Texts
            BY <4>2, <5>1 DEF Texts, Framed
          <5>3. list' \in Seq(Texts) /\ Len(list') = Len(list) + 1
            BY <1>1, <4>2, <5>2
          <5> QED
            BY <1>1, <1>7, <5>1, <5>3
        <4> QED
          BY <2>1, <4>1, <4>2 DEF NextFrame
      <3>4. Len(list') \in Nat
        BY <3>3
      <3> QED
        BY <1>1, <3>1, <3>2, <3>3, <3>4
    <2>2. CASE Skip
      <3>1. pc' = "sign" /\ at < Len(list) /\ at' = at + 1 /\ list' = list /\ chosen' = chosen
        BY <2>2 DEF Skip
      <3> QED
        BY <1>1, <1>7, <3>1
    <2>3. CASE Choose
      <3>1. pc' \in {"sign", "join"} /\ at < Len(list) /\ at' = at + 1 /\ list' = list
        BY <2>3 DEF Choose
      <3>2. chosen' = Append(chosen, Trimmed(list[at + 1]))
        BY <2>3 DEF Choose
      <3>3. at + 1 \in 1 .. Len(list)
        BY <1>1, <3>1
      <3>4. chosen' \in Seq(Signed)
        BY <1>1, <3>2, <3>3, ListedIsText
      <3> QED
        BY <1>1, <1>7, <3>1, <3>3, <3>4
    <2>4. CASE FindThread \/ EndFrames \/ EndList \/ Join \/ UNCHANGED vars
      <3>1. UNCHANGED <<list, at, chosen>>
        BY <2>4 DEF FindThread, EndFrames, EndList, Join, NotSigned, vars
      <3>2. pc' \in {"threads", "frames", "absent", "beyond"} => pc \in {"threads", "frames", "absent", "beyond"}
        BY <2>4 DEF FindThread, EndFrames, EndList, Join, vars
      <3> QED
        BY <1>1, <1>7, <3>1, <3>2 DEF ShapeOK
    <2> QED
      BY <2>1, <2>2, <2>3, <2>4 DEF Next
  <1> QED
    BY <1>2, <1>3, <1>4, <1>6, <1>8 DEF ShapeOK

\* What is listed, and where it ends, does not change any more.
LEMMA SameFrames ==
  ASSUME UNCHANGED <<list, lists>>
  PROVE  /\ Relevant' = Relevant /\ Stops' = Stops
         /\ \A i : Trimmed(list[i])' = Trimmed(list[i])
  <1>1. \A i : Trimmed(list[i])' = Trimmed(list[i])
    BY DEF Trimmed
  <1>2. Relevant' = Relevant
    BY DEF Relevant
  <1>3. Stops' = {i \in Relevant' : ~Matches(lists'.prefix, Trimmed(list[i])')}
    BY DEF Stops
  <1>4. Stops' = {i \in Relevant : ~Matches(lists.prefix, Trimmed(list[i]))}
    BY <1>1, <1>2, <1>3
  <1> QED
    BY <1>1, <1>2, <1>4 DEF Stops

\* Relevant frames are frames.
LEMMA FramesCount ==
  ASSUME ShapeOK
  PROVE  /\ DOMAIN list = 1 .. Len(list) /\ Len(list) \in Nat /\ at \in Nat /\ at <= Len(list)
         /\ DOMAIN chosen = 1 .. Len(chosen) /\ Len(chosen) \in Nat
         /\ Relevant \subseteq 1 .. Len(list) /\ Stops \subseteq Relevant
  <1>1. /\ DOMAIN list = 1 .. Len(list) /\ Len(list) \in Nat /\ at \in Nat /\ at <= Len(list)
        /\ DOMAIN chosen = 1 .. Len(chosen) /\ Len(chosen) \in Nat
    BY DEF ShapeOK
  <1>2. Relevant \subseteq 1 .. Len(list) /\ Stops \subseteq Relevant
    BY <1>1 DEF Relevant, Stops
  <1> QED
    BY <1>1, <1>2

\* A frame that goes is irrelevant, or is chosen already and has let others follow.
LEMMA SkipChoice == ASSUME ShapeOK, ChoiceInv, Skip PROVE ChoiceInv'
  <1>1. pc = "sign" /\ at < Len(list) /\ Goes(list[at + 1]) /\ at' = at + 1 /\ UNCHANGED <<lists, pc, list, chosen>>
    BY DEF Skip
  <1>2. /\ Relevant' = Relevant /\ Stops' = Stops /\ \A i : Trimmed(list[i])' = Trimmed(list[i])
    BY <1>1, SameFrames
  <1>3. /\ at \in Nat /\ Len(list) \in Nat /\ DOMAIN chosen = 1 .. Len(chosen) /\ Len(chosen) \in Nat
        /\ Relevant \subseteq 1 .. Len(list) /\ Stops \subseteq Relevant
    BY FramesCount
  <1>4. ASSUME at + 1 \in Relevant
        PROVE  \E k \in DOMAIN chosen : chosen[k] = Trimmed(list[at + 1])
    <2>1. ~Matches(lists.irrelevant, list[at + 1])
      BY <1>4 DEF Relevant
    <2>2. IsRepeated(list[at + 1])
      BY <1>1, <2>1 DEF Goes
    <2>3. chosen # <<>> /\ Last(chosen) = TrimDll(list[at + 1]) /\ Matches(lists.trimDll, list[at + 1])
      BY <2>2 DEF IsRepeated
    <2>4. Trimmed(list[at + 1]) = TrimDll(list[at + 1])
      BY <2>3 DEF Trimmed
    <2>5. chosen \in Seq(Signed)
      BY DEF ShapeOK
    <2>6. Len(chosen) \in DOMAIN chosen
      BY <2>3, <2>5
    <2>7. Last(chosen) = chosen[Len(chosen)]
      BY DEF Last
    <2> QED
      BY <2>3, <2>4, <2>6, <2>7
  <1>5. at + 1 \notin Stops
    BY <1>1, <1>3, <1>4 DEF Stops, ChoiceInv
  <1>6. \A i \in Relevant : i <= at + 1 => \E k \in DOMAIN chosen : chosen[k] = Trimmed(list[i])
    <2>1. ASSUME NEW i \in Relevant, i <= at + 1 PROVE \E k \in DOMAIN chosen : chosen[k] = Trimmed(list[i])
      <3>1. i <= at \/ i = at + 1
        BY <1>3, <2>1
      <3> QED
        BY <1>4, <3>1 DEF ChoiceInv
    <2> QED
      BY <2>1
  <1>7. \A k \in DOMAIN chosen : \E i \in Relevant : i <= at + 1 /\ chosen[k] = Trimmed(list[i])
    <2>1. \A i \in Relevant : i <= at => i <= at + 1
      BY <1>3
    <2> QED
      BY <2>1 DEF ChoiceInv
  <1>8. \A j \in Stops : at + 1 < j
    <2>1. ASSUME NEW j \in Stops PROVE at + 1 < j
      <3>1. at < j /\ j \in Nat /\ j # at + 1
        BY <1>1, <1>3, <1>5, <2>1 DEF ChoiceInv
      <3> QED
        BY <1>3, <3>1
    <2> QED
      BY <2>1
  <1> QED
    BY <1>1, <1>2, <1>6, <1>7, <1>8 DEF ChoiceInv

\* A frame that is chosen is relevant, and more are chosen only if it is a prefix.
LEMMA ChooseChoice == ASSUME ShapeOK, ChoiceInv, Choose PROVE ChoiceInv' /\ EndInv'
  <1>1. /\ pc = "sign" /\ at < Len(list) /\ ~Goes(list[at + 1]) /\ at' = at + 1 /\ UNCHANGED <<lists, list>>
        /\ chosen' = Append(chosen, Trimmed(list[at + 1]))
        /\ pc' = IF Matches(lists.prefix, Trimmed(list[at + 1])) THEN pc ELSE "join"
    BY DEF Choose, IsPrefixSignature
  <1>2. /\ Relevant' = Relevant /\ Stops' = Stops /\ \A i : Trimmed(list[i])' = Trimmed(list[i])
    BY <1>1, SameFrames
  <1>3. /\ at \in Nat /\ Len(list) \in Nat /\ DOMAIN list = 1 .. Len(list)
        /\ Relevant \subseteq 1 .. Len(list) /\ Stops \subseteq Relevant
    BY FramesCount
  <1>4. at + 1 \in Relevant
    <2>1. ~Matches(lists.irrelevant, list[at + 1])
      BY <1>1 DEF Goes
    <2>2. at + 1 \in DOMAIN list
      BY <1>1, <1>3
    <2> QED
      BY <2>1, <2>2 DEF Relevant
  <1>5. PICK s : s = Trimmed(list[at + 1])
    OBVIOUS
  <1>6. s \in Signed /\ chosen \in Seq(Signed)
    BY <1>1, <1>3, <1>5, ListedIsText DEF ShapeOK
  <1>7. /\ Len(chosen') = Len(chosen) + 1 /\ Len(chosen) \in Nat
        /\ DOMAIN chosen' = 1 .. Len(chosen') /\ DOMAIN chosen = 1 .. Len(chosen)
        /\ chosen'[Len(chosen')] = s /\ \A k \in DOMAIN chosen : k \in DOMAIN chosen' /\ chosen'[k] = chosen[k]
    BY <1>1, <1>5, <1>6, Appended
  <1>8. Len(chosen') \in DOMAIN chosen'
    BY <1>7
  <1>9. \A k \in DOMAIN chosen' : k \in DOMAIN chosen \/ k = Len(chosen')
    BY <1>7
  <1>10. \A i \in Relevant : i <= at + 1 => \E k \in DOMAIN chosen' : chosen'[k] = Trimmed(list[i])
    <2>1. ASSUME NEW i \in Relevant, i <= at + 1 PROVE \E k \in DOMAIN chosen' : chosen'[k] = Trimmed(list[i])
      <3>1. i <= at \/ i = at + 1
        BY <1>3, <2>1
      <3>2. CASE i <= at
        BY <1>7, <3>2 DEF ChoiceInv
      <3>3. CASE i = at + 1
        BY <1>5, <1>7, <1>8, <3>3
      <3> QED
        BY <3>1, <3>2, <3>3
    <2> QED
      BY <2>1
  <1>11. \A k \in DOMAIN chosen' : \E i \in Relevant : i <= at + 1 /\ chosen'[k] = Trimmed(list[i])
    <2>1. (\A i \in Relevant : i <= at => i <= at + 1) /\ at + 1 <= at + 1
      BY <1>3
    <2>2. ASSUME NEW k \in DOMAIN chosen' PROVE \E i \in Relevant : i <= at + 1 /\ chosen'[k] = Trimmed(list[i])
      <3>1. CASE k \in DOMAIN chosen
        BY <1>7, <2>1, <3>1 DEF ChoiceInv
      <3>2. CASE k = Len(chosen')
        BY <1>4, <1>5, <1>7, <2>1, <3>2
      <3> QED
        BY <1>9, <3>1, <3>2
    <2> QED
      BY <2>2
  <1>12. \A k \in DOMAIN chosen : Matches(lists.prefix, chosen[k])
    BY <1>1 DEF ChoiceInv
  <1>13. \A k \in DOMAIN chosen' : k < Len(chosen') => Matches(lists.prefix, chosen'[k])
    <2>1. ASSUME NEW k \in DOMAIN chosen', k < Len(chosen') PROVE Matches(lists.prefix, chosen'[k])
      <3>1. k \in DOMAIN chosen
        BY <1>7, <2>1
      <3> QED
        BY <1>7, <1>12, <3>1
    <2> QED
      BY <2>1
  <1>14. \A j \in Stops : at < j
    BY <1>1 DEF ChoiceInv
  <1>15. CASE Matches(lists.prefix, s)
    <2>1. pc' = "sign" /\ at + 1 \notin Stops
      BY <1>1, <1>5, <1>15 DEF Stops
    <2>2. \A j \in Stops : at + 1 < j
      <3>1. ASSUME NEW j \in Stops PROVE at + 1 < j
        <4>1. at < j /\ j \in Nat /\ j # at + 1
          BY <1>3, <1>14, <2>1, <3>1
        <4> QED
          BY <1>3, <4>1
      <3> QED
        BY <3>1
    <2>3. \A k \in DOMAIN chosen' : Matches(lists.prefix, chosen'[k])
      BY <1>7, <1>9, <1>12, <1>15
    <2>4. ChoiceInv'
      BY <1>1, <1>2, <1>10, <1>11, <1>13, <2>2, <2>3 DEF ChoiceInv
    <2> QED
      BY <2>1, <2>4 DEF EndInv
  <1>16. CASE ~Matches(lists.prefix, s)
    <2>1. pc' = "join" /\ at + 1 \in Stops
      BY <1>1, <1>4, <1>5, <1>16 DEF Stops
    <2>2. \A j \in Stops : at + 1 <= j /\ j \in Nat
      BY <1>3, <1>14
    <2>3. \A i \in Relevant : i <= at + 1 <=> \A j \in Stops : i <= j
      BY <1>3, <2>1, <2>2
    <2>4. ChoiceInv'
      BY <1>1, <1>2, <1>10, <1>11, <1>13, <2>1 DEF ChoiceInv
    <2> QED
      BY <1>1, <1>2, <2>1, <2>3, <2>4 DEF EndInv
  <1> QED
    BY <1>15, <1>16

\* The other steps choose nothing.
LEMMA OthersChoice ==
  ASSUME ShapeOK, ShapeOK', ChoiceInv, EndInv,
         FindThread \/ NextFrame \/ EndFrames \/ EndList \/ Join \/ UNCHANGED vars
  PROVE  ChoiceInv' /\ EndInv'
  <1>1. CASE FindThread \/ NextFrame \/ EndFrames
    <2>1. /\ pc \in {"threads", "frames"} /\ pc' \notin {"join", "done"}
          /\ at' = at /\ chosen' = chosen
      <3>1. pc' \in {"frames", "sign", "absent", "beyond"}
        BY <1>1, CrashesAssumption DEF FindThread, NextFrame, EndFrames, ShapeOK
      <3> QED
        BY <1>1, <3>1 DEF FindThread, NextFrame, EndFrames, NotSigned
    <2>2. at' = 0 /\ DOMAIN chosen' = {}
      <3>1. at = 0 /\ Len(chosen) = 0
        BY <2>1 DEF ShapeOK
      <3>2. DOMAIN chosen = 1 .. Len(chosen)
        BY FramesCount
      <3> QED
        BY <2>1, <3>1, <3>2
    <2>3. \A i \in Relevant' : i > 0
      <3>1. DOMAIN list' = 1 .. Len(list') /\ Len(list') \in Nat
        BY DEF ShapeOK
      <3> QED
        BY <3>1 DEF Relevant
    <2>4. \A i \in Stops' : i > 0
      BY <2>3 DEF Stops
    <2>5. \A i \in Relevant' : ~(i <= 0)
      <3>1. Relevant' \subseteq Int
        <4>1. DOMAIN list' = 1 .. Len(list') /\ Len(list') \in Nat
          BY DEF ShapeOK
        <4> QED
          BY <4>1 DEF Relevant
      <3> QED
        BY <2>3, <3>1
    <2>6. \A i \in Stops' : 0 < i
      BY <2>4
    <2> QED
      BY <2>1, <2>2, <2>5, <2>6 DEF ChoiceInv, EndInv
  <1>2. CASE EndList
    <2>1. pc = "sign" /\ pc' = "join" /\ at = Len(list) /\ UNCHANGED <<lists, list, at, chosen>>
      BY <1>2 DEF EndList, NotSigned
    <2>2. /\ Relevant' = Relevant /\ Stops' = Stops /\ \A i : Trimmed(list[i])' = Trimmed(list[i])
      BY <2>1, SameFrames
    <2>3. Stops = {} /\ \A i \in Relevant : i <= at
      BY <2>1, FramesCount DEF ChoiceInv
    <2>4. ChoiceInv'
      BY <2>1, <2>2 DEF ChoiceInv
    <2> QED
      BY <2>1, <2>2, <2>3, <2>4 DEF EndInv
  <1>3. CASE Join
    <2>1. /\ pc = "join" /\ pc' = "done" /\ UNCHANGED <<lists, list, at, chosen>>
          /\ signature' = IF ~NoText(chosen) THEN chosen ELSE IF list # <<>> THEN <<list[1]>> ELSE <<NoFrames>>
      BY <1>3 DEF Join, NotSigned
    <2>2. /\ Relevant' = Relevant /\ Stops' = Stops /\ \A i : Trimmed(list[i])' = Trimmed(list[i])
      BY <2>1, SameFrames
    <2>3. ChoiceInv'
      BY <2>1, <2>2 DEF ChoiceInv
    <2> QED
      BY <2>1, <2>2, <2>3 DEF EndInv
  <1>4. CASE UNCHANGED vars
    <2>1. UNCHANGED <<lists, list, at, chosen, pc, signature>>
      BY <1>4 DEF vars
    <2>2. /\ Relevant' = Relevant /\ Stops' = Stops /\ \A i : Trimmed(list[i])' = Trimmed(list[i])
      BY <2>1, SameFrames
    <2>3. ChoiceInv'
      BY <2>1, <2>2 DEF ChoiceInv
    <2> QED
      BY <2>1, <2>2, <2>3 DEF EndInv
  <1> QED
    BY <1>1, <1>2, <1>3, <1>4

\* The shape at first.
LEMMA InitShape == ASSUME Init PROVE ShapeOK /\ Len(list) = 0 /\ Len(chosen) = 0
  <1>1. crash \in Crashes /\ lists \in Lists /\ pc = "threads" /\ list = <<>> /\ at = 0 /\ chosen = <<>>
    BY DEF Init
  <1>2. MaxFrames \in Nat
    BY FramesAssumption
  <1>3. list \in Seq(Texts) /\ Len(list) = 0
    BY <1>1
  <1>4. chosen \in Seq(Signed) /\ Len(chosen) = 0
    BY <1>1
  <1> QED
    BY <1>1, <1>2, <1>3, <1>4 DEF ShapeOK

\* All of the invariant but the texts.
SigInv == ShapeOK /\ ChoiceInv /\ EndInv

\* Nothing is listed or chosen at first.
LEMMA InitSig == ASSUME Init PROVE SigInv
  <1>1. ShapeOK /\ Len(list) = 0 /\ Len(chosen) = 0 /\ pc = "threads"
    BY InitShape DEF Init
  <1>2. DOMAIN list = {} /\ DOMAIN chosen = {}
    BY <1>1, FramesCount
  <1>3. Relevant = {} /\ Stops = {}
    BY <1>2 DEF Relevant, Stops
  <1> QED
    BY <1>1, <1>2, <1>3 DEF SigInv, ChoiceInv, EndInv

\* Every step keeps the choice.
LEMMA NextSig == ASSUME SigInv, [Next]_vars PROVE SigInv'
  <1>1. ShapeOK /\ ChoiceInv /\ EndInv /\ ShapeOK'
    BY NextShape DEF SigInv
  <1>2. CASE Skip
    <2>1. pc' = "sign"
      BY <1>2 DEF Skip
    <2> QED
      BY <1>1, <1>2, <2>1, SkipChoice DEF SigInv, EndInv
  <1> QED
    BY <1>1, <1>2, ChooseChoice, OthersChoice DEF Next, SigInv

-----------------------------------------------------------------------------
(* Theorems. *)

\* The frames that are listed, looked at and chosen are frames of the crash, at most MaxFrames
\* of them.
THEOREM SignaturesTypeOK == Spec => []TypeOK
  <1>1. Init => SigInv
    BY InitSig
  <1>2. SigInv /\ [Next]_vars => SigInv'
    BY NextSig
  <1>3. SigInv => TypeOK
    <2> SUFFICES ASSUME SigInv PROVE TypeOK
      OBVIOUS
    <2>1. crash.thread \in {"known", "absent", "beyond"}
      BY CrashesAssumption DEF SigInv, ShapeOK
    <2>2. ASSUME NEW s \in ToSet(chosen) PROVE \E t \in ToSet(list) : s \in {t, TrimDll(t)}
      <3>1. PICK k \in DOMAIN chosen : s = chosen[k]
        BY DEF ToSet
      <3>2. PICK i \in Relevant : s = Trimmed(list[i])
        BY <3>1 DEF SigInv, ChoiceInv
      <3>3. list[i] \in ToSet(list)
        BY DEF Relevant, ToSet
      <3> QED
        BY <3>2, <3>3, TrimmedIs
    <2> QED
      BY <2>1, <2>2 DEF SigInv, ShapeOK, TypeOK
  <1> QED
    BY <1>1, <1>2, <1>3, PTL DEF Spec

\* The signature of every crash has each relevant frame down to the first one that is not a
\* prefix and nothing else, for any frames and any three lists of expressions.
THEOREM SignaturesSignatureIsRelevant == Spec => []SignatureIsRelevant
  <1>1. Init => SigInv
    BY InitSig
  <1>2. SigInv /\ [Next]_vars => SigInv'
    BY NextSig
  <1>3. SigInv => SignatureIsRelevant
    <2> DEFINE used == {i \in Relevant : \A j \in Stops : i <= j}
    <2> SUFFICES ASSUME SigInv, pc = "done", ~NoText(chosen)
                 PROVE  /\ ToSet(signature) = {Trimmed(list[i]) : i \in used}
                        /\ \A k \in 1 .. Len(signature) - 1 : Matches(lists.prefix, signature[k])
      BY DEF SignatureIsRelevant
    <2>1. ShapeOK /\ ChoiceInv /\ EndInv
      BY DEF SigInv
    <2>2. signature = chosen
      BY <2>1 DEF EndInv
    <2>3. used = {i \in Relevant : i <= at}
      BY <2>1 DEF EndInv
    <2>4. ToSet(chosen) = {Trimmed(list[i]) : i \in used}
      <3>1. ASSUME NEW s \in ToSet(chosen) PROVE s \in {Trimmed(list[i]) : i \in used}
        <4>1. PICK k \in DOMAIN chosen : s = chosen[k]
          BY DEF ToSet
        <4> QED
          BY <2>1, <2>3, <4>1 DEF ChoiceInv
      <3>2. ASSUME NEW i \in used PROVE Trimmed(list[i]) \in ToSet(chosen)
        <4>1. \E k \in DOMAIN chosen : chosen[k] = Trimmed(list[i])
          BY <2>1, <2>3 DEF ChoiceInv
        <4> QED
          BY <4>1 DEF ToSet
      <3> QED
        BY <3>1, <3>2
    <2>5. \A k \in 1 .. Len(chosen) - 1 : Matches(lists.prefix, chosen[k])
      <3>1. \A k \in 1 .. Len(chosen) - 1 : k \in DOMAIN chosen /\ k < Len(chosen)
        BY <2>1, FramesCount
      <3> QED
        BY <2>1, <3>1 DEF ChoiceInv
    <2> QED
      BY <2>2, <2>4, <2>5
  <1> QED
    BY <1>1, <1>2, <1>3, PTL DEF Spec

\* What was trimmed away is a repetition, the next time; what was listed has text.
LEMMA NextText == ASSUME SigInv, TextInv, [Next]_vars PROVE TextInv'
  <1>1. ShapeOK /\ DOMAIN list = 1 .. Len(list) /\ Len(list) \in Nat /\ at \in Nat
    BY FramesCount DEF SigInv
  <1>2. CASE NextFrame
    <2>1. chosen' = chosen
      BY <1>2 DEF NextFrame
    <2>2. CASE list' = <<>>
      BY <2>1, <2>2 DEF TextInv
    <2>3. CASE /\ list' = Append(list, NormalizeSignature(crash.frames[Len(list) + 1]))
               /\ crash.frames[Len(list) + 1].kind # "plain"
      <3>1. crash \in Crashes /\ Len(crash.frames) \in Nat
        BY CrashesAssumption DEF SigInv, ShapeOK
      <3>2. Len(list) + 1 \in 1 .. Len(crash.frames)
        BY <1>1, <1>2, <3>1 DEF NextFrame
      <3>3. PICK t : t = NormalizeSignature(crash.frames[Len(list) + 1])
        OBVIOUS
      <3>4. t # None
        BY <2>3, <3>1, <3>2, <3>3, TextAssumption
      <3>5. t \in Texts /\ list \in Seq(Texts)
        BY <1>1, <2>3, <3>2, <3>3 DEF Texts, Framed, ShapeOK
      <3>6. /\ Len(list') = Len(list) + 1 /\ DOMAIN list' = 1 .. Len(list')
            /\ list'[Len(list')] = t /\ \A k \in DOMAIN list : list'[k] = list[k]
        BY <2>3, <3>3, <3>5, Appended
      <3>7. \A k \in DOMAIN list' : k \in DOMAIN list \/ k = Len(list')
        BY <1>1, <3>6
      <3>8. \A k \in DOMAIN list' : list'[k] # None
        BY <3>4, <3>6, <3>7 DEF TextInv
      <3> QED
        BY <2>1, <3>8 DEF TextInv
    <2> QED
      BY <1>2, <2>2, <2>3 DEF NextFrame
  <1>3. CASE Choose
    <2>1. /\ at < Len(list) /\ ~Goes(list[at + 1]) /\ list' = list
          /\ chosen' = Append(chosen, Trimmed(list[at + 1]))
      BY <1>3 DEF Choose
    <2>2. PICK s : s = Trimmed(list[at + 1])
      OBVIOUS
    <2>3. s \in Signed /\ chosen \in Seq(Signed) /\ at + 1 \in DOMAIN list
      BY <1>1, <2>1, <2>2, ListedIsText DEF ShapeOK
    <2>4. /\ Len(chosen') = Len(chosen) + 1 /\ Len(chosen) \in Nat
          /\ DOMAIN chosen' = 1 .. Len(chosen') /\ DOMAIN chosen = 1 .. Len(chosen)
          /\ chosen'[Len(chosen')] = s /\ \A k \in DOMAIN chosen : k \in DOMAIN chosen' /\ chosen'[k] = chosen[k]
      BY <2>1, <2>2, <2>3, Appended
    <2>5. Len(chosen') \in DOMAIN chosen'
      BY <2>4
    <2>6. CASE Len(chosen) = 0
      <3>1. Len(chosen') <= 1
        BY <2>4, <2>6
      <3> QED
        BY <2>1, <3>1 DEF TextInv
    <2>7. CASE s # None
      <3>1. \E k \in DOMAIN chosen' : chosen'[k] # None
        BY <2>4, <2>5, <2>7
      <3> QED
        BY <2>1, <3>1 DEF TextInv
    <2>8. CASE \E k \in DOMAIN chosen : chosen[k] # None
      <3>1. \E k \in DOMAIN chosen' : chosen'[k] # None
        BY <2>4, <2>8
      <3> QED
        BY <2>1, <3>1 DEF TextInv
    <2>9. CASE Len(chosen) # 0 /\ s = None /\ \A k \in DOMAIN chosen : chosen[k] = None
      <3>1. Len(chosen) \in DOMAIN chosen
        BY <2>4, <2>9
      <3>2. Last(chosen) = None
        BY <2>9, <3>1 DEF Last
      <3>3. list[at + 1] # None
        BY <2>3 DEF TextInv
      <3>4. Matches(lists.trimDll, list[at + 1]) /\ TrimDll(list[at + 1]) = None
        BY <2>2, <2>9, <3>3 DEF Trimmed
      <3>5. chosen # <<>>
        BY <2>3, <2>9
      <3>6. IsRepeated(list[at + 1])
        BY <3>2, <3>4, <3>5 DEF IsRepeated
      <3> QED
        BY <2>1, <3>6 DEF Goes
    <2> QED
      BY <2>6, <2>7, <2>8, <2>9
  <1>4. CASE FindThread \/ EndFrames \/ Skip \/ EndList \/ Join \/ UNCHANGED vars
    BY <1>4 DEF FindThread, EndFrames, Skip, EndList, Join, NotSigned, vars, TextInv
  <1> QED
    BY <1>2, <1>3, <1>4 DEF Next

\* The text without frames is text.
LEMMA NoFramesHasText == NoFrames # None
  <1>1. \A e : <<e>> # <<>>
    OBVIOUS
  <1> QED
    BY <1>1, Zenon DEF NoFrames, None

\* A choice without text is nothing, or one frame that was trimmed away.
LEMMA ChoiceHasText ==
  ASSUME NEW S, NEW c \in Seq(S), Len(c) <= 1, ~NoText(c) PROVE \E k \in DOMAIN c : c[k] # None
  <1>1. c # <<>> /\ c # <<None>>
    BY DEF NoText
  <1>2. Len(c) \in Nat /\ DOMAIN c = 1 .. Len(c)
    OBVIOUS
  <1>3. Len(c) # 0
    BY <1>1
  <1>4. Len(c) = 1
    BY <1>2, <1>3
  <1>5. c = <<c[1]>>
    BY <1>4
  <1>6. c[1] # None
    BY <1>1, <1>5
  <1>7. 1 \in DOMAIN c
    BY <1>2, <1>4
  <1> QED
    BY <1>6, <1>7

\* Every crash whose thread is known has a signature with text in it, even if the expressions
\* leave nothing of its frames, as long as normalizing a frame leaves text.
THEOREM SignaturesNeverEmpty == Spec => []NeverEmpty
  <1>1. Init => SigInv /\ TextInv
    <2> SUFFICES ASSUME Init PROVE SigInv /\ TextInv
      OBVIOUS
    <2>1. ShapeOK /\ Len(list) = 0 /\ Len(chosen) = 0
      BY InitShape
    <2>2. DOMAIN list = {}
      BY <2>1, FramesCount
    <2> QED
      BY <2>1, <2>2, InitSig DEF TextInv
  <1>2. SigInv /\ TextInv /\ [Next]_vars => SigInv' /\ TextInv'
    BY NextSig, NextText
  <1>3. SigInv /\ TextInv => NeverEmpty
    <2> SUFFICES ASSUME SigInv, TextInv, pc = "done" PROVE \E s \in ToSet(signature) : s # None
      BY DEF NeverEmpty
    <2>1. ShapeOK /\ EndInv /\ chosen \in Seq(Signed)
      BY DEF SigInv, ShapeOK
    <2>2. CASE ~NoText(chosen)
      <3>1. signature = chosen
        BY <2>1, <2>2 DEF EndInv
      <3>2. \E k \in DOMAIN chosen : chosen[k] # None
        BY <2>1, <2>2, ChoiceHasText DEF TextInv
      <3> QED
        BY <3>1, <3>2 DEF ToSet
    <2>3. CASE NoText(chosen) /\ list # <<>>
      <3>1. signature = <<list[1]>>
        BY <2>1, <2>3 DEF EndInv
      <3>2. list \in Seq(Texts) /\ DOMAIN list = 1 .. Len(list) /\ Len(list) \in Nat
        BY <2>1, FramesCount DEF ShapeOK
      <3>3. Len(list) # 0
        BY <2>3, <3>2
      <3>4. list[1] # None
        BY <3>2, <3>3 DEF TextInv
      <3>5. 1 \in DOMAIN signature /\ signature[1] = list[1]
        BY <3>1
      <3> QED
        BY <3>4, <3>5 DEF ToSet
    <2>4. CASE NoText(chosen) /\ list = <<>>
      <3>1. signature = <<NoFrames>>
        BY <2>1, <2>4 DEF EndInv
      <3>2. 1 \in DOMAIN signature /\ signature[1] = NoFrames
        BY <3>1
      <3> QED
        BY <3>2, NoFramesHasText DEF ToSet
    <2> QED
      BY <2>2, <2>3, <2>4
  <1> QED
    BY <1>1, <1>2, <1>3, PTL DEF Spec

-----------------------------------------------------------------------------
(* The passes over a text. *)

DropOne(s, out, i) == IF i < Len(s) /\ s[i] = " " /\ s[i + 1] \in NoSpaceBefore THEN out ELSE Append(out, s[i])

AddOne(s, out, i) == IF i < Len(s) /\ s[i] = "," /\ s[i + 1] # " " THEN out \o <<",", " ">> ELSE Append(out, s[i])

\* One round of a pass.
Round(pass, s, x, i) == CASE pass = "collapse" -> CollapseOne(s, x, i)
                          [] pass = "drop"     -> DropOne(s, x, i)
                          [] pass = "add"      -> AddOne(s, x, i)

\* What a fold of the pass goes through.
FoldOf(pass, s, base, g) == g = [u \in SUBSET DOMAIN [i \in DOMAIN s |-> i] |->
    IF u = {} THEN base
    ELSE Round(pass, s, g[u \ {CHOOSE x \in u : \A y \in u : x >= y}],
                        [i \in DOMAIN s |-> i][CHOOSE x \in u : \A y \in u : x >= y])]

Passed(pass, s, base) == (CHOOSE g : FoldOf(pass, s, base, g))[DOMAIN [i \in DOMAIN s |-> i]]

\* The rounds of a pass, one by one.
Rounds(pass, s, base, d) == d[0] = base /\ \A k \in 1 .. Len(s) : d[k] = Round(pass, s, d[k - 1], k)

\* A pass that does its rounds, and stays in a set.
Ran(pass, s, base, St) == \E d :
    Rounds(pass, s, base, d) /\ (\A k \in 0 .. Len(s) : d[k] \in St) /\ Passed(pass, s, base) = d[Len(s)]

\* A pass does its rounds from the first token to the last.
LEMMA PassRuns ==
  ASSUME NEW pass, NEW s, NEW T, s \in Seq(T), NEW St, NEW base \in St,
         \A x \in St, i \in 1 .. Len(s) : Round(pass, s, x, i) \in St
  PROVE  Ran(pass, s, base, St)
  <1>1. PICK n : n = Len(s)
    OBVIOUS
  <1>2. n \in Nat /\ DOMAIN s = 1 .. n /\ DOMAIN [i \in DOMAIN s |-> i] = 1 .. n
    BY <1>1
  <1>3. PICK pick : pick = [u \in SUBSET (1 .. n) |-> CHOOSE m \in u : \A k \in u : m >= k]
    OBVIOUS
  <1>4. PICK step : step = [p \in St \X (1 .. n) |-> Round(pass, s, p[1], p[2])]
    OBVIOUS
  <1>5. \A x \in St, i \in 1 .. n : step[<<x, i>>] = Round(pass, s, x, i) /\ step[<<x, i>>] \in St
    BY <1>1, <1>4
  <1>6. \A u \in SUBSET (1 .. n) : u # {} => pick[u] \in u /\ pick[u] \in 1 .. n /\ u \ {pick[u]} \in SUBSET (1 .. n)
    BY <1>2, <1>3, TopOf
  <1>7. ASSUME NEW g
        PROVE  FoldOf(pass, s, base, g) <=> g = [u \in SUBSET (1 .. n) |->
                  IF u = {} THEN base ELSE Round(pass, s, g[u \ {pick[u]}], pick[u])]
    <2>1. \A u \in SUBSET (1 .. n) : u # {} => [i \in DOMAIN s |-> i][pick[u]] = pick[u]
      BY <1>2, <1>6
    <2>2. PICK c : c = [i \in DOMAIN s |-> i]
      OBVIOUS
    <2>3. FoldOf(pass, s, base, g) <=> g = [u \in SUBSET (1 .. n) |->
             IF u = {} THEN base
             ELSE Round(pass, s, g[u \ {CHOOSE x \in u : \A y \in u : x >= y}], c[CHOOSE x \in u : \A y \in u : x >= y])]
      BY <1>2, <2>2 DEF FoldOf
    <2>4. \A u \in SUBSET (1 .. n) : pick[u] = CHOOSE x \in u : \A y \in u : x >= y
      BY <1>3
    <2>5. FoldOf(pass, s, base, g) <=> g = [u \in SUBSET (1 .. n) |->
             IF u = {} THEN base ELSE Round(pass, s, g[u \ {pick[u]}], c[pick[u]])]
      BY <2>3, <2>4
    <2> QED
      BY <2>1, <2>2, <2>5
  <1>8. PICK f : Folds(f, base, step, pick, SUBSET (1 .. n))
    <2>1. IsFiniteSet(1 .. n)
      BY <1>2, FS_Interval
    <2> QED
      BY <1>6, <2>1, FoldsExist
  <1>9. \A u \in SUBSET (1 .. n) : f[u] = IF u = {} THEN base ELSE step[<<f[u \ {pick[u]}], pick[u]>>]
    BY <1>8 DEF Folds
  <1>10. \A u \in SUBSET (1 .. n) : f[u] \in St
    <2>1. FoldsIn(f, base, step, pick, SUBSET (1 .. n), St)
      BY <1>9 DEF FoldsIn
    <2> QED
      BY <1>2, <1>3, <1>5, <2>1, FoldRuns
  <1>11. FoldOf(pass, s, base, f)
    <2>1. \A u \in SUBSET (1 .. n) : u # {} => step[<<f[u \ {pick[u]}], pick[u]>>] = Round(pass, s, f[u \ {pick[u]}], pick[u])
      BY <1>5, <1>6, <1>10
    <2>2. f = [u \in SUBSET (1 .. n) |-> IF u = {} THEN base ELSE step[<<f[u \ {pick[u]}], pick[u]>>]]
      BY <1>8 DEF Folds
    <2>3. f = [u \in SUBSET (1 .. n) |-> IF u = {} THEN base ELSE Round(pass, s, f[u \ {pick[u]}], pick[u])]
      BY <2>1, <2>2
    <2> QED
      BY <1>7, <2>3
  <1>12. PICK h : h = CHOOSE g : FoldOf(pass, s, base, g)
    OBVIOUS
  <1>13. FoldOf(pass, s, base, h)
    BY <1>11, <1>12, Zenon
  <1>14. h = [u \in SUBSET (1 .. n) |-> IF u = {} THEN base ELSE Round(pass, s, h[u \ {pick[u]}], pick[u])]
    BY <1>7, <1>13
  <1>15. FoldsIn(h, base, step, pick, SUBSET (1 .. n), St)
    <2>1. \A u \in SUBSET (1 .. n) : h[u] = IF u = {} THEN base ELSE Round(pass, s, h[u \ {pick[u]}], pick[u])
      BY <1>14
    <2> QED
      BY <1>5, <1>6, <2>1 DEF FoldsIn
  <1>16. /\ h[{}] = base /\ \A k \in 1 .. n : h[1 .. k] = step[<<h[1 .. (k - 1)], k>>]
         /\ \A u \in SUBSET (1 .. n) : h[u] \in St
    BY <1>2, <1>3, <1>5, <1>15, FoldRuns
  <1>17. PICK d : d = [k \in 0 .. n |-> h[1 .. k]]
    OBVIOUS
  <1>18. \A k \in 0 .. n : 1 .. k \in SUBSET (1 .. n) /\ d[k] = h[1 .. k]
    BY <1>2, <1>17
  <1>19. \A k \in 1 .. n : d[k] = Round(pass, s, d[k - 1], k)
    <2> SUFFICES ASSUME NEW k \in 1 .. n PROVE d[k] = Round(pass, s, d[k - 1], k)
      OBVIOUS
    <2>1. k - 1 \in 0 .. n /\ k \in 0 .. n
      BY <1>2
    <2>2. d[k] = h[1 .. k] /\ d[k - 1] = h[1 .. (k - 1)] /\ h[1 .. (k - 1)] \in St
      BY <1>16, <1>18, <2>1
    <2>3. h[1 .. k] = step[<<h[1 .. (k - 1)], k>>]
      BY <1>16
    <2> QED
      BY <1>5, <2>2, <2>3
  <1>20. d[0] = base
    <2>1. 1 .. 0 = {} /\ 0 \in 0 .. n
      BY <1>2
    <2> QED
      BY <1>16, <1>18, <2>1
  <1>21. Passed(pass, s, base) = d[n]
    BY <1>2, <1>12, <1>18 DEF Passed
  <1> QED
    BY <1>1, <1>16, <1>18, <1>19, <1>20, <1>21 DEF Rounds, Ran

Start == [out |-> <<>>, depth |-> 0, exception |-> FALSE]

\* The three passes.
LEMMA PassesAre ==
  /\ \A s : Collapse(s) = Passed("collapse", s, Start).out
  /\ \A s : DropSpaces(s) = Passed("drop", s, <<>>)
  /\ \A s : AddSpaces(s) = Passed("add", s, <<>>)
  <1>1. \A s : Collapse(s) = Passed("collapse", s, Start).out
    BY DEF Collapse, FoldLeftDomain, FoldLeft, MapThenFoldSet, Max, Passed, FoldOf, Round, Start
  <1>2. \A s : DropSpaces(s) = Passed("drop", s, <<>>)
    BY DEF DropSpaces, DropOne, FoldLeftDomain, FoldLeft, MapThenFoldSet, Max, Passed, FoldOf, Round
  <1>3. \A s : AddSpaces(s) = Passed("add", s, <<>>)
    BY DEF AddSpaces, AddOne, FoldLeftDomain, FoldLeft, MapThenFoldSet, Max, Passed, FoldOf, Round
  <1> QED
    BY <1>1, <1>2, <1>3

-----------------------------------------------------------------------------
(* Spaces. *)

Spacing == {",", " "}

Ends(s, t) == s # <<>> /\ s[Len(s)] = t

\* A text with one token more.
LEMMA OneMore ==
  ASSUME NEW T, NEW s \in Seq(T), NEW t \in T, NEW r, r = Append(s, t)
  PROVE  /\ r \in Seq(T) /\ Len(s) \in Nat /\ Len(r) = Len(s) + 1 /\ r # <<>> /\ r[Len(s) + 1] = t
         /\ \A i \in 1 .. Len(s) : r[i] = s[i] /\ s[i] \in T
         /\ Ends(r, t)
  BY DEF Ends

\* The empty text.
LEMMA NoTokens == \A T : <<>> \in Seq(T)
  OBVIOUS

\* The tokens of a text.
LEMMA ElementsIn == ASSUME NEW T, NEW s \in Seq(T) PROVE \A i \in DOMAIN s : s[i] \in T
  OBVIOUS

\* A text with nothing before it.
LEMMA NothingBefore == ASSUME NEW T, NEW s \in Seq(T) PROVE <<>> \o s = s
  OBVIOUS

\* A text and two tokens more.
LEMMA TwoMore ==
  ASSUME NEW T, NEW s \in Seq(T), NEW a \in T, NEW b \in T
  PROVE  s \o <<a, b>> = Append(Append(s, a), b) /\ Append(Append(s, a), b) \in Seq(T)
  OBVIOUS

\* The two passes that append.
Appends == {"drop", "add"}

\* A round looks at its token and the next one.
LEMMA RoundSame ==
  ASSUME NEW pass \in Appends, NEW r, NEW s, NEW i, NEW x, r[i] = s[i], r[i + 1] = s[i + 1], i < Len(r), i < Len(s)
  PROVE  Round(pass, r, x, i) = Round(pass, s, x, i)
  <1>1. PICK y : y = IF s[i] = " " /\ s[i + 1] \in NoSpaceBefore THEN x ELSE Append(x, s[i])
    OBVIOUS
  <1>2. DropOne(r, x, i) = y /\ DropOne(s, x, i) = y
    BY <1>1 DEF DropOne
  <1>3. PICK z : z = IF s[i] = "," /\ s[i + 1] # " " THEN x \o <<",", " ">> ELSE Append(x, s[i])
    OBVIOUS
  <1>4. AddOne(r, x, i) = z /\ AddOne(s, x, i) = z
    BY <1>3 DEF AddOne
  <1>5. CASE pass = "drop"
    BY <1>2, <1>5 DEF Round
  <1>6. CASE pass = "add"
    BY <1>4, <1>6 DEF Round
  <1> QED
    BY <1>5, <1>6 DEF Appends

\* The last token is appended.
LEMMA RoundLast ==
  ASSUME NEW pass \in Appends, NEW s, NEW i, NEW x, ~(i < Len(s))
  PROVE  Round(pass, s, x, i) = Append(x, s[i])
  <1>1. CASE pass = "drop"
    BY <1>1 DEF Round, DropOne
  <1>2. CASE pass = "add"
    BY <1>2 DEF Round, AddOne
  <1> QED
    BY <1>1, <1>2 DEF Appends

\* A round leaves text.
LEMMA RoundIn ==
  ASSUME NEW pass \in Appends, NEW T, Spacing \subseteq T, NEW s \in Seq(T), NEW x \in Seq(T), NEW i \in 1 .. Len(s)
  PROVE  Round(pass, s, x, i) \in Seq(T)
  <1>1. s[i] \in T /\ Append(x, s[i]) \in Seq(T)
    OBVIOUS
  <1>2. CASE pass = "drop"
    BY <1>1, <1>2 DEF Round, DropOne
  <1>3. CASE pass = "add"
    <2>1. PICK a, b : a = "," /\ b = " "
      OBVIOUS
    <2>2. a \in T /\ b \in T
      BY <2>1 DEF Spacing
    <2>3. x \o <<a, b>> \in Seq(T)
      BY <2>2, TwoMore
    <2> QED
      BY <1>1, <1>3, <2>1, <2>3 DEF Round, AddOne
  <1> QED
    BY <1>2, <1>3 DEF Appends

\* Rounds that do the same come to the same.
LEMMA SameRounds ==
  ASSUME NEW pass, NEW r, NEW s, NEW base, NEW e, NEW d, Rounds(pass, r, base, e), Rounds(pass, s, base, d),
         Len(r) \in Nat, Len(s) \in Nat, NEW m \in Nat, m <= Len(r), m <= Len(s),
         \A k \in 1 .. m : Round(pass, r, d[k - 1], k) = Round(pass, s, d[k - 1], k)
  PROVE  e[m] = d[m]
  <1> DEFINE U == {k \in Nat : k <= m => e[k] = d[k]}
  <1>1. 0 \in U
    BY DEF Rounds
  <1>2. ASSUME NEW k \in Nat, k \in U PROVE k + 1 \in U
    <2> SUFFICES ASSUME k + 1 <= m PROVE e[k + 1] = d[k + 1]
      OBVIOUS
    <2>1. PICK j : j = k + 1
      OBVIOUS
    <2>2. j \in 1 .. m /\ j \in 1 .. Len(r) /\ j \in 1 .. Len(s) /\ j - 1 = k /\ e[k] = d[k]
      BY <1>2, <2>1
    <2>3. e[j] = Round(pass, r, e[j - 1], j) /\ d[j] = Round(pass, s, d[j - 1], j)
      BY <2>2 DEF Rounds
    <2>4. Round(pass, r, d[j - 1], j) = Round(pass, s, d[j - 1], j)
      BY <2>2
    <2> QED
      BY <2>1, <2>2, <2>3, <2>4
  <1>3. \A k \in Nat : k \in U
    <2> HIDE DEF U
    <2> QED
      BY <1>1, <1>2, Induct
  <1> QED
    BY <1>3

\* What is before the last token.
LEMMA SameBefore ==
  ASSUME NEW T, NEW x \in Seq(T), NEW y \in Seq(T), NEW a \in T, NEW b \in T, Append(x, a) = Append(y, b)
  PROVE  x = y
  <1>1. PICK r : r = Append(x, a)
    OBVIOUS
  <1>2. Len(r) = Len(x) + 1 /\ Len(x) \in Nat /\ \A i \in 1 .. Len(x) : r[i] = x[i]
    BY <1>1, OneMore
  <1>3. Len(r) = Len(y) + 1 /\ Len(y) \in Nat /\ \A i \in 1 .. Len(y) : r[i] = y[i]
    BY <1>1, OneMore
  <1>4. Len(x) = Len(y) /\ \A i \in 1 .. Len(x) : x[i] = y[i]
    BY <1>2, <1>3
  <1> QED
    BY <1>4

\* A pass that appends does its rounds.
LEMMA AppendsRun ==
  ASSUME NEW pass \in Appends, NEW T, Spacing \subseteq T, NEW s \in Seq(T)
  PROVE  Ran(pass, s, <<>>, Seq(T))
  <1>1. PICK St : St = Seq(T)
    OBVIOUS
  <1>2. <<>> \in St
    BY <1>1, NoTokens
  <1>3. \A x \in St, i \in 1 .. Len(s) : Round(pass, s, x, i) \in St
    BY <1>1, RoundIn
  <1>4. s \in Seq(T)
    OBVIOUS
  <1>5. Ran(pass, s, <<>>, St)
    BY <1>2, <1>3, <1>4, PassRuns
  <1> QED
    BY <1>1, <1>5

\* What one token more does to the last one.
Grown(pass, s, t, T) == \E p \in Seq(T) :
    /\ Passed(pass, s, <<>>) = Append(p, s[Len(s)])
    /\ Passed(pass, Append(s, t), <<>>) = Append(Round(pass, Append(s, t), p, Len(s)), t)

\* One token more: what is before the last one stays, which looks at it.
LEMMA PassGrows ==
  ASSUME NEW pass \in Appends, NEW T, Spacing \subseteq T, NEW s \in Seq(T), s # <<>>, NEW t \in T
  PROVE  Grown(pass, s, t, T)
  <1>1. PICK n, m : n = Len(s) /\ m = n - 1
    OBVIOUS
  <1>3. PICK r : r = Append(s, t)
    OBVIOUS
  <1>2. /\ r \in Seq(T) /\ n \in Nat /\ n # 0 /\ Len(r) = n + 1 /\ r[n + 1] = t /\ m \in Nat
        /\ \A i \in 1 .. n : r[i] = s[i]
    BY <1>1, <1>3, OneMore
  <1>5. PICK d : Rounds(pass, s, <<>>, d) /\ (\A k \in 0 .. Len(s) : d[k] \in Seq(T)) /\ Passed(pass, s, <<>>) = d[Len(s)]
    BY AppendsRun DEF Ran
  <1>6. PICK e : Rounds(pass, r, <<>>, e) /\ (\A k \in 0 .. Len(r) : e[k] \in Seq(T)) /\ Passed(pass, r, <<>>) = e[Len(r)]
    <2>1. r \in Seq(T)
      BY <1>2
    <2>2. Ran(pass, r, <<>>, Seq(T))
      BY <2>1, AppendsRun
    <2> QED
      BY <2>2 DEF Ran
  <1>7. e[m] = d[m]
    <2>1. \A k \in 1 .. m : Round(pass, r, d[k - 1], k) = Round(pass, s, d[k - 1], k)
      <3> SUFFICES ASSUME NEW k \in 1 .. m PROVE Round(pass, r, d[k - 1], k) = Round(pass, s, d[k - 1], k)
        OBVIOUS
      <3>1. k \in 1 .. n /\ k + 1 \in 1 .. n /\ k < Len(r) /\ k < Len(s)
        BY <1>1, <1>2
      <3>2. r[k] = s[k] /\ r[k + 1] = s[k + 1]
        BY <1>2, <3>1
      <3>3. k < Len(r) /\ k < Len(s)
        BY <3>1
      <3> QED
        BY <3>2, <3>3, RoundSame
    <2>2. Len(r) \in Nat /\ Len(s) \in Nat /\ m <= Len(r) /\ m <= Len(s)
      BY <1>1, <1>2
    <2> QED
      BY <1>2, <1>5, <1>6, <2>1, <2>2, SameRounds
  <1>8. d[m] \in Seq(T)
    BY <1>1, <1>2, <1>5
  <1>9. d[n] = Append(d[m], s[n])
    <2>1. n \in 1 .. Len(s) /\ ~(n < Len(s)) /\ n - 1 = m
      BY <1>1, <1>2
    <2>2. d[n] = Round(pass, s, d[m], n)
      BY <1>5, <2>1 DEF Rounds
    <2> QED
      BY <2>1, <2>2, RoundLast
  <1>10. e[n] = Round(pass, r, d[m], n)
    <2>1. n \in 1 .. Len(r) /\ n - 1 = m
      BY <1>1, <1>2
    <2> QED
      BY <1>6, <1>7, <2>1 DEF Rounds
  <1>11. e[n + 1] = Append(e[n], t)
    <2>1. n + 1 \in 1 .. Len(r) /\ ~(n + 1 < Len(r)) /\ (n + 1) - 1 = n
      BY <1>2
    <2>2. e[n + 1] = Round(pass, r, e[n], n + 1)
      BY <1>6, <2>1 DEF Rounds
    <2>3. Round(pass, r, e[n], n + 1) = Append(e[n], r[n + 1])
      BY <2>1, RoundLast, Zenon
    <2> QED
      BY <1>2, <2>2, <2>3
  <1>12. /\ Passed(pass, s, <<>>) = Append(d[m], s[Len(s)])
         /\ Passed(pass, r, <<>>) = Append(Round(pass, r, d[m], Len(s)), t)
    BY <1>1, <1>2, <1>5, <1>6, <1>9, <1>10, <1>11
  <1> QED
    BY <1>3, <1>8, <1>12 DEF Grown

\* A text that begins.
LEMMA PassBegins ==
  ASSUME NEW pass \in Appends, NEW T, Spacing \subseteq T, NEW t \in T
  PROVE  Passed(pass, <<>>, <<>>) = <<>> /\ Passed(pass, Append(<<>>, t), <<>>) = Append(<<>>, t)
  <1>1. PICK s, r : s = <<>> /\ r = Append(s, t)
    OBVIOUS
  <1>2. s \in Seq(T) /\ Len(s) = 0
    BY <1>1, NoTokens
  <1>3. r \in Seq(T) /\ Len(r) = 1 /\ r[1] = t
    BY <1>1, <1>2, OneMore
  <1>4. PICK d : Rounds(pass, s, <<>>, d) /\ Passed(pass, s, <<>>) = d[Len(s)]
    BY <1>2, AppendsRun DEF Ran
  <1>5. PICK e : Rounds(pass, r, <<>>, e) /\ Passed(pass, r, <<>>) = e[Len(r)]
    BY <1>3, AppendsRun DEF Ran
  <1>6. d[0] = <<>> /\ e[0] = <<>>
    BY <1>4, <1>5 DEF Rounds
  <1>7. e[1] = Append(e[0], t)
    <2>1. 1 \in 1 .. Len(r) /\ 1 - 1 = 0 /\ ~(1 < Len(r))
      BY <1>3
    <2>2. e[1] = Round(pass, r, e[0], 1)
      BY <1>5, <2>1 DEF Rounds
    <2>3. Round(pass, r, e[0], 1) = Append(e[0], r[1])
      BY <2>1, RoundLast
    <2> QED
      BY <1>3, <2>2, <2>3
  <1> QED
    BY <1>1, <1>2, <1>3, <1>4, <1>5, <1>6, <1>7

\* A space that goes.
Dropped(s, t, T) == \E p \in Seq(T) : DropSpaces(s) = Append(p, " ") /\ DropSpaces(Append(s, t)) = Append(p, t)

\* A space goes when a comma or a pointer follows.
LEMMA DropGrows ==
  ASSUME NEW T, Spacing \subseteq T, NEW s \in Seq(T), NEW t \in T
  PROVE  /\ DropSpaces(s) \in Seq(T) /\ \A c : Ends(DropSpaces(s), c) <=> Ends(s, c)
         /\ ~(Ends(s, " ") /\ t \in NoSpaceBefore) => DropSpaces(Append(s, t)) = Append(DropSpaces(s), t)
         /\ Ends(s, " ") /\ t \in NoSpaceBefore => Dropped(s, t, T)
  <1> "drop" \in Appends
    BY DEF Appends
  <1>1. \A q : DropSpaces(q) = Passed("drop", q, <<>>)
    BY PassesAre
  <1>2. DropSpaces(s) \in Seq(T)
    <2>1. PICK d : (\A k \in 0 .. Len(s) : d[k] \in Seq(T)) /\ Passed("drop", s, <<>>) = d[Len(s)]
      BY AppendsRun DEF Ran
    <2>2. Len(s) \in 0 .. Len(s)
      OBVIOUS
    <2> QED
      BY <1>1, <2>1, <2>2
  <1>3. CASE s = <<>>
    <2>1. ~Ends(s, " ")
      BY <1>3 DEF Ends
    <2>2. DropSpaces(s) = <<>> /\ DropSpaces(Append(s, t)) = Append(<<>>, t)
      BY <1>1, <1>3, PassBegins
    <2>3. \A c : Ends(DropSpaces(s), c) <=> Ends(s, c)
      BY <1>3, <2>2, Zenon
    <2> QED
      BY <1>2, <1>3, <2>1, <2>2, <2>3
  <1>4. CASE s # <<>>
    <2>1. PICK p \in Seq(T) : /\ DropSpaces(s) = Append(p, s[Len(s)])
                              /\ DropSpaces(Append(s, t)) = Append(Round("drop", Append(s, t), p, Len(s)), t)
      <3>1. Grown("drop", s, t, T)
        BY <1>4, PassGrows
      <3> QED
        BY <1>1, <3>1 DEF Grown
    <2>2. PICK r, n : r = Append(s, t) /\ n = Len(s)
      OBVIOUS
    <2>3. n < Len(r) /\ r[n] = s[n] /\ r[n + 1] = t
      <3>1. Len(s) \in 1 .. Len(s)
        BY <1>4
      <3> QED
        BY <2>2, <3>1, OneMore
    <2>4. s[n] = " " /\ t \in NoSpaceBefore => Round("drop", r, p, n) = p
      BY <2>3 DEF Round, DropOne
    <2>5. ~(s[n] = " " /\ t \in NoSpaceBefore) => Round("drop", r, p, n) = Append(p, s[n])
      BY <2>3 DEF Round, DropOne
    <2>6. Ends(s, " ") <=> s[n] = " "
      BY <1>4, <2>2 DEF Ends
    <2>7. \A c : Ends(DropSpaces(s), c) <=> Ends(s, c)
      <3>1. PICK x, y : x = s[n] /\ y = Append(p, x)
        OBVIOUS
      <3>2. n \in 1 .. n
        BY <1>4, <2>2
      <3>3. x \in T
        BY <2>2, <3>1, <3>2, OneMore
      <3>4. y # <<>> /\ y[Len(y)] = x
        BY <3>1, <3>3, OneMore
      <3>5. DropSpaces(s) = y
        BY <2>1, <2>2, <3>1
      <3> QED
        BY <1>4, <2>2, <3>1, <3>4, <3>5 DEF Ends
    <2> QED
      BY <1>2, <2>1, <2>2, <2>4, <2>5, <2>6, <2>7, Zenon DEF Dropped
  <1> QED
    BY <1>3, <1>4

\* A comma is followed by a space.
LEMMA AddGrows ==
  ASSUME NEW T, Spacing \subseteq T, NEW s \in Seq(T), NEW t \in T
  PROVE  /\ AddSpaces(s) \in Seq(T)
         /\ ~(Ends(s, ",") /\ t # " ") => AddSpaces(Append(s, t)) = Append(AddSpaces(s), t)
         /\ Ends(s, ",") /\ t # " " => AddSpaces(Append(s, t)) = Append(Append(AddSpaces(s), " "), t)
  <1> "add" \in Appends
    BY DEF Appends
  <1>1. \A q : AddSpaces(q) = Passed("add", q, <<>>)
    BY PassesAre
  <1>2. AddSpaces(s) \in Seq(T)
    <2>1. PICK d : (\A k \in 0 .. Len(s) : d[k] \in Seq(T)) /\ Passed("add", s, <<>>) = d[Len(s)]
      BY AppendsRun DEF Ran
    <2>2. Len(s) \in 0 .. Len(s)
      OBVIOUS
    <2> QED
      BY <1>1, <2>1, <2>2
  <1>3. CASE s = <<>>
    <2>1. ~Ends(s, ",")
      BY <1>3 DEF Ends
    <2>2. AddSpaces(s) = <<>> /\ AddSpaces(Append(s, t)) = Append(<<>>, t)
      BY <1>1, <1>3, PassBegins
    <2> QED
      BY <1>2, <1>3, <2>1, <2>2
  <1>4. CASE s # <<>>
    <2>1. PICK p \in Seq(T) : /\ AddSpaces(s) = Append(p, s[Len(s)])
                              /\ AddSpaces(Append(s, t)) = Append(Round("add", Append(s, t), p, Len(s)), t)
      <3>1. Grown("add", s, t, T)
        BY <1>4, PassGrows
      <3> QED
        BY <1>1, <3>1 DEF Grown
    <2>2. PICK r, n : r = Append(s, t) /\ n = Len(s)
      OBVIOUS
    <2>3. n < Len(r) /\ r[n] = s[n] /\ r[n + 1] = t
      <3>1. Len(s) \in 1 .. Len(s)
        BY <1>4
      <3> QED
        BY <2>2, <3>1, OneMore
    <2>4. s[n] = "," /\ t # " " => Round("add", r, p, n) = p \o <<",", " ">>
      BY <2>3 DEF Round, AddOne
    <2>5. ~(s[n] = "," /\ t # " ") => Round("add", r, p, n) = Append(p, s[n])
      BY <2>3 DEF Round, AddOne
    <2>6. Ends(s, ",") <=> s[n] = ","
      BY <1>4, <2>2 DEF Ends
    <2>7. p \o <<",", " ">> = Append(Append(p, ","), " ")
      <3>1. PICK a, b : a = "," /\ b = " "
        OBVIOUS
      <3>2. a \in T /\ b \in T
        BY <3>1 DEF Spacing
      <3>3. p \o <<a, b>> = Append(Append(p, a), b)
        BY <3>2, TwoMore
      <3> QED
        BY <3>1, <3>3, Zenon
    <2>8. s[n] = "," /\ t # " " => AddSpaces(Append(s, t)) = Append(Append(AddSpaces(s), " "), t)
      BY <2>1, <2>2, <2>4, <2>7, Zenon
    <2>9. ~(s[n] = "," /\ t # " ") => AddSpaces(Append(s, t)) = Append(AddSpaces(s), t)
      BY <2>1, <2>2, <2>5, Zenon
    <2> QED
      BY <1>2, <2>6, <2>8, <2>9, Zenon
  <1> QED
    BY <1>3, <1>4

\* What one token more makes of the text with its spaces dropped and added.
LEMMA SpacedGrows ==
  ASSUME NEW T, Spacing \subseteq T, NEW s \in Seq(T), NEW t \in T
  PROVE  /\ ~(Ends(s, " ") /\ t \in NoSpaceBefore) /\ ~(Ends(s, ",") /\ t # " ")
              => Spaced(Append(s, t)) = Append(Spaced(s), t)
         /\ ~(Ends(s, " ") /\ t \in NoSpaceBefore) /\ Ends(s, ",") /\ t # " "
              => Spaced(Append(s, t)) = Append(Append(Spaced(s), " "), t)
         /\ ~Ends(s, " ") /\ t \in NoSpaceBefore => Spaced(Append(Append(s, " "), t)) = Spaced(Append(s, t))
  <1>1. PICK d, p : d = DropSpaces(s) /\ p = " "
    OBVIOUS
  <1>2. d \in Seq(T) /\ (\A c : Ends(d, c) <=> Ends(s, c)) /\ p \in T /\ p \notin NoSpaceBefore
    <2>1. p \in T
      BY <1>1 DEF Spacing
    <2>2. p \notin NoSpaceBefore
      BY <1>1 DEF NoSpaceBefore
    <2> QED
      BY <1>1, <2>1, <2>2, DropGrows
  <1>3. ASSUME ~(Ends(s, p) /\ t \in NoSpaceBefore) PROVE DropSpaces(Append(s, t)) = Append(d, t)
    BY <1>1, <1>3, DropGrows
  <1>4. ASSUME ~(Ends(s, p) /\ t \in NoSpaceBefore), ~(Ends(s, ",") /\ t # p)
        PROVE  Spaced(Append(s, t)) = Append(Spaced(s), t)
    <2>1. AddSpaces(Append(d, t)) = Append(AddSpaces(d), t)
      BY <1>1, <1>2, <1>4, AddGrows
    <2> QED
      BY <1>1, <1>3, <1>4, <2>1 DEF Spaced
  <1>5. ASSUME ~(Ends(s, p) /\ t \in NoSpaceBefore), Ends(s, ","), t # p
        PROVE  Spaced(Append(s, t)) = Append(Append(Spaced(s), p), t)
    <2>1. AddSpaces(Append(d, t)) = Append(Append(AddSpaces(d), p), t)
      BY <1>1, <1>2, <1>5, AddGrows
    <2> QED
      BY <1>1, <1>3, <1>5, <2>1 DEF Spaced
  <1>6. ASSUME ~Ends(s, p), t \in NoSpaceBefore PROVE Spaced(Append(Append(s, p), t)) = Spaced(Append(s, t))
    <2>1. PICK r : r = Append(s, p)
      OBVIOUS
    <2>2. r \in Seq(T) /\ Ends(r, p)
      BY <1>2, <2>1, OneMore
    <2>3. PICK q \in Seq(T) : DropSpaces(r) = Append(q, p) /\ DropSpaces(Append(r, t)) = Append(q, t)
      <3>1. Ends(r, " ")
        BY <1>1, <2>2
      <3>2. Dropped(r, t, T)
        BY <1>6, <2>2, <3>1, DropGrows
      <3> QED
        BY <1>1, <3>2, Zenon DEF Dropped
    <2>4. DropSpaces(r) = Append(d, p)
      BY <1>1, <1>2, <2>1, DropGrows
    <2>5. q = d
      <3>1. Append(q, p) = Append(d, p) /\ d \in Seq(T) /\ p \in T
        BY <1>2, <2>3, <2>4
      <3> QED
        BY <3>1, SameBefore
    <2>6. DropSpaces(Append(r, t)) = DropSpaces(Append(s, t))
      BY <1>3, <1>6, <2>3, <2>5
    <2> QED
      BY <2>1, <2>6 DEF Spaced
  <1> QED
    BY <1>1, <1>4, <1>5, <1>6, Zenon

\* Two texts that are spaced the same, and end the same.
Alike(a, b) == Spaced(a) = Spaced(b) /\ \A c : Ends(a, c) <=> Ends(b, c)

\* What ends with the same token, and is spaced the same, is alike.
LEMMA EndsSame ==
  ASSUME NEW T, NEW a \in Seq(T), NEW b \in Seq(T), NEW t \in T, Spaced(Append(a, t)) = Spaced(Append(b, t))
  PROVE  Alike(Append(a, t), Append(b, t))
  <1>1. PICK x, y : x = Append(a, t) /\ y = Append(b, t)
    OBVIOUS
  <1>2. Ends(x, t) /\ Ends(y, t)
    <2>1. Ends(x, t)
      BY <1>1, OneMore
    <2>2. Ends(y, t)
      BY <1>1, OneMore
    <2> QED
      BY <2>1, <2>2
  <1>3. \A c : Ends(x, c) <=> Ends(y, c)
    BY <1>2 DEF Ends
  <1> QED
    BY <1>1, <1>3 DEF Alike

\* What is alike stays alike.
LEMMA AlikeGrow ==
  ASSUME NEW T, Spacing \subseteq T, NEW a \in Seq(T), NEW b \in Seq(T), Alike(a, b), NEW t \in T,
         ~(Ends(a, " ") /\ t \in NoSpaceBefore)
  PROVE  Alike(Append(a, t), Append(b, t))
  <1>1. PICK p : p = " "
    OBVIOUS
  <1>2. Spaced(a) = Spaced(b) /\ (\A c : Ends(a, c) <=> Ends(b, c))
    BY DEF Alike
  <1>3. ~(Ends(a, p) /\ t \in NoSpaceBefore) /\ ~(Ends(b, p) /\ t \in NoSpaceBefore)
    BY <1>1, <1>2
  <1>4. CASE ~(Ends(a, ",") /\ t # p)
    <2>1. ~(Ends(b, ",") /\ t # p)
      BY <1>2, <1>4
    <2>2. Spaced(Append(a, t)) = Append(Spaced(a), t)
      BY <1>1, <1>3, <1>4, SpacedGrows
    <2>3. Spaced(Append(b, t)) = Append(Spaced(b), t)
      BY <1>1, <1>3, <2>1, SpacedGrows
    <2> QED
      BY <1>2, <2>2, <2>3, EndsSame
  <1>5. CASE Ends(a, ",") /\ t # p
    <2>1. Ends(b, ",") /\ t # p
      BY <1>2, <1>5
    <2>2. Spaced(Append(a, t)) = Append(Append(Spaced(a), p), t)
      BY <1>1, <1>3, <1>5, SpacedGrows
    <2>3. Spaced(Append(b, t)) = Append(Append(Spaced(b), p), t)
      BY <1>1, <1>3, <2>1, SpacedGrows
    <2> QED
      BY <1>2, <2>2, <2>3, EndsSame
  <1> QED
    BY <1>4, <1>5

\* A space more is made up for by a comma before it, or what takes no space after it.
LEMMA AlikeCatch ==
  ASSUME NEW T, Spacing \subseteq T, NEW a \in Seq(T), NEW b \in Seq(T), Alike(a, b), ~Ends(a, " "),
         NEW t \in T, t # " ", t \in NoSpaceBefore \/ Ends(a, ",")
  PROVE  Alike(Append(Append(a, " "), t), Append(b, t))
  <1>1. PICK p, r : p = " " /\ r = Append(a, p)
    OBVIOUS
  <1>2. p \in T
    BY <1>1 DEF Spacing
  <1>3. r \in Seq(T) /\ Ends(r, p) /\ r # <<>> /\ r[Len(r)] = p
    <2>1. r \in Seq(T) /\ Ends(r, p)
      BY <1>1, <1>2, OneMore
    <2> QED
      BY <2>1 DEF Ends
  <1>4. CASE t \in NoSpaceBefore
    <2>1. Spaced(Append(r, t)) = Spaced(Append(a, t))
      BY <1>1, <1>4, SpacedGrows
    <2>2. Alike(Append(a, t), Append(b, t))
      BY AlikeGrow
    <2>3. Spaced(Append(a, t)) = Spaced(Append(b, t))
      BY <2>2 DEF Alike
    <2> QED
      BY <1>1, <1>3, <2>1, <2>3, EndsSame
  <1>5. CASE t \notin NoSpaceBefore
    <2>1. Ends(a, ",") /\ Ends(b, ",") /\ Spaced(a) = Spaced(b)
      BY <1>5 DEF Alike
    <2>2. p \notin NoSpaceBefore
      BY <1>1 DEF NoSpaceBefore
    <2>3. Spaced(r) = Append(Spaced(a), p)
      BY <1>1, <1>2, <2>2, SpacedGrows
    <2>4. ~Ends(r, ",")
      <3>1. p # ","
        BY <1>1
      <3> QED
        BY <1>3, <3>1 DEF Ends
    <2>5. Spaced(Append(r, t)) = Append(Spaced(r), t)
      BY <1>3, <1>5, <2>4, SpacedGrows
    <2>6. Spaced(Append(b, t)) = Append(Append(Spaced(b), p), t)
      BY <1>1, <1>5, <2>1, SpacedGrows
    <2> QED
      BY <1>1, <1>3, <2>1, <2>3, <2>5, <2>6, EndsSame
  <1> QED
    BY <1>4, <1>5

-----------------------------------------------------------------------------
(* Pieces. *)

\* Pieces are put together one by one.
Joins(e, p) == e[0] = <<>> /\ \A k \in 1 .. Len(p) : e[k] = e[k - 1] \o p[k]

\* The pieces of a text, put together.
Joined(p, T) == \E e : Joins(e, p) /\ (\A k \in 0 .. Len(p) : e[k] \in Seq(T)) /\ FlattenSeq(p) = e[Len(p)]

\* Flattening puts the pieces together from the first to the last.
LEMMA Flattened == ASSUME NEW T, NEW p \in Seq(Seq(T)) PROVE Joined(p, T)
  <1>1. PICK n, St, q : n = Len(p) /\ St = Seq(T) /\ q = p
    OBVIOUS
  <1>2. n \in Nat /\ (\A i \in 1 .. n : q[i] \in St) /\ <<>> \in St /\ (n = 0 => q = <<>>) /\ Len(q) = n
    BY <1>1, NoTokens
  <1>3. PICK step : step = [x \in St \X (1 .. n) |-> x[1] \o q[x[2]]]
    OBVIOUS
  <1>4. \A x \in St, i \in 1 .. n : step[<<x, i>>] = x \o q[i] /\ step[<<x, i>>] \in St
    <2>1. \A x, y \in St : x \o y \in St
      BY <1>1
    <2> QED
      BY <1>2, <1>3, <2>1
  <1>5. PICK e : /\ e[0] = <<>> /\ (\A k \in 1 .. n : e[k] = step[<<e[k - 1], k>>]) /\ \A k \in 0 .. n : e[k] \in St
    <2>1. PICK base : base = <<>>
      OBVIOUS
    <2>2. base \in St /\ \A x \in St, i \in 1 .. n : step[<<x, i>>] \in St
      BY <1>2, <1>4, <2>1
    <2>3. n \in Nat
      BY <1>2
    <2>4. \E e : Runs(e, base, step, n, St)
      BY <2>2, <2>3, RunExists
    <2> QED
      BY <2>1, <2>4 DEF Runs
  <1>6. \A k \in 1 .. n : e[k] = e[k - 1] \o q[k]
    <2> SUFFICES ASSUME NEW k \in 1 .. n PROVE e[k] = e[k - 1] \o q[k]
      OBVIOUS
    <2>1. k - 1 \in 0 .. n
      BY <1>2
    <2>2. e[k - 1] \in St /\ e[k] = step[<<e[k - 1], k>>]
      BY <1>5, <2>1
    <2> QED
      BY <1>4, <2>2
  <1>7. n # 0 => FlattenSeq(q) = e[n]
    <2> SUFFICES ASSUME n # 0 PROVE FlattenSeq(q) = e[n]
      OBVIOUS
    <2>1. PICK h : h = CHOOSE g : g = [i \in 1 .. Len(q) |-> IF i = 1 THEN q[i] ELSE g[i - 1] \o q[i]]
      OBVIOUS
    <2>2. FlattenSeq(q) = h[Len(q)]
      BY <1>2, <2>1 DEF FlattenSeq
    <2>3. PICK f : f = [i \in 1 .. n |-> e[i]]
      OBVIOUS
    <2>4. \A i \in 1 .. n : f[i] = IF i = 1 THEN q[i] ELSE f[i - 1] \o q[i]
      <3> SUFFICES ASSUME NEW i \in 1 .. n PROVE f[i] = IF i = 1 THEN q[i] ELSE f[i - 1] \o q[i]
        OBVIOUS
      <3>1. CASE i = 1
        <4>1. f[1] = <<>> \o q[1] /\ q[1] \in Seq(T)
          <5>1. 1 \in 1 .. n /\ 1 - 1 = 0
            BY <3>1
          <5>2. f[1] = e[1] /\ e[1] = e[0] \o q[1] /\ q[1] \in St
            BY <1>2, <1>6, <2>3, <5>1
          <5> QED
            BY <1>1, <1>5, <5>2
        <4>2. <<>> \o q[1] = q[1]
          BY <4>1, NothingBefore
        <4> QED
          BY <3>1, <4>1, <4>2
      <3>2. CASE i # 1
        <4>1. i - 1 \in 1 .. n
          BY <1>2, <3>2
        <4>2. f[i] = e[i] /\ f[i - 1] = e[i - 1]
          BY <2>3, <4>1
        <4> QED
          BY <1>6, <3>2, <4>2
      <3> QED
        BY <3>1, <3>2
    <2>5. f = [i \in 1 .. n |-> IF i = 1 THEN q[i] ELSE f[i - 1] \o q[i]]
      BY <2>3, <2>4
    <2>6. h = [i \in 1 .. n |-> IF i = 1 THEN q[i] ELSE h[i - 1] \o q[i]]
      BY <1>2, <2>1, <2>5
    <2>7. \A i \in 1 .. n : h[i] = IF i = 1 THEN q[i] ELSE h[i - 1] \o q[i]
      BY <2>6
    <2> DEFINE U == {k \in Nat : k + 1 <= n => h[k + 1] = f[k + 1]}
    <2>8. 0 \in U
      BY <2>4, <2>7
    <2>9. ASSUME NEW k \in Nat, k \in U PROVE k + 1 \in U
      <3> SUFFICES ASSUME k + 1 + 1 <= n PROVE h[k + 1 + 1] = f[k + 1 + 1]
        OBVIOUS
      <3>1. PICK j : j = k + 1 + 1
        OBVIOUS
      <3>2. j \in 1 .. n /\ j # 1 /\ j - 1 = k + 1 /\ h[k + 1] = f[k + 1]
        BY <1>2, <2>9, <3>1
      <3>3. h[j] = h[j - 1] \o q[j] /\ f[j] = f[j - 1] \o q[j]
        BY <2>4, <2>7, <3>2
      <3> QED
        BY <3>1, <3>2, <3>3
    <2>10. \A k \in Nat : k \in U
      <3> HIDE DEF U
      <3> QED
        BY <2>8, <2>9, Induct
    <2>11. h[n] = f[n]
      <3>1. PICK k : k = n - 1
        OBVIOUS
      <3>2. k \in Nat /\ k + 1 = n
        BY <1>2, <3>1
      <3>3. k \in U
        BY <2>10, <3>2
      <3> QED
        BY <1>2, <3>2, <3>3
    <2> QED
      BY <1>2, <2>2, <2>3, <2>11
  <1>8. n = 0 => FlattenSeq(q) = e[n]
    BY <1>2, <1>5 DEF FlattenSeq
  <1> QED
    BY <1>1, <1>5, <1>6, <1>7, <1>8 DEF Joined, Joins

\* What was there first is there last.
Stays(e, n) == \A k \in 0 .. n :
    Len(e[k]) \in Nat /\ Len(e[k]) <= Len(e[n]) /\ \A j \in 1 .. Len(e[k]) : e[n][j] = e[k][j]

\* What has no more than one token more at a time keeps what it had.
LEMMA PrefixStays ==
  ASSUME NEW T, NEW n \in Nat, NEW e, \A k \in 0 .. n : e[k] \in Seq(T),
         \A k \in 1 .. n : e[k] = e[k - 1] \/ \E t \in T : e[k] = Append(e[k - 1], t)
  PROVE  Stays(e, n)
  <1> DEFINE U == {i \in Nat : i <= n => \A k \in 0 .. i :
                     Len(e[k]) \in Nat /\ Len(e[k]) <= Len(e[i]) /\ \A j \in 1 .. Len(e[k]) : e[i][j] = e[k][j]}
  <1>1. \A k \in 0 .. n : Len(e[k]) \in Nat
    OBVIOUS
  <1>2. 0 \in U
    BY <1>1
  <1>3. ASSUME NEW i \in Nat, i \in U PROVE i + 1 \in U
    <2> SUFFICES ASSUME i + 1 <= n, NEW k \in 0 .. i + 1
                 PROVE  Len(e[k]) \in Nat /\ Len(e[k]) <= Len(e[i + 1]) /\ \A j \in 1 .. Len(e[k]) : e[i + 1][j] = e[k][j]
      OBVIOUS
    <2>1. PICK m, x, y : m = i + 1 /\ x = e[i] /\ y = e[m]
      OBVIOUS
    <2>2. m \in 1 .. n /\ m - 1 = i /\ i \in 0 .. n /\ k \in 0 .. n
      BY <2>1
    <2>3. y = x \/ \E t \in T : y = Append(x, t)
      BY <2>1, <2>2
    <2>4. x \in Seq(T) /\ y \in Seq(T) /\ Len(x) \in Nat
      BY <1>1, <2>1, <2>2
    <2>5. Len(x) <= Len(y) /\ \A j \in 1 .. Len(x) : y[j] = x[j]
      <3>1. CASE y = x
        BY <2>4, <3>1
      <3>2. ASSUME NEW t \in T, y = Append(x, t) PROVE Len(x) <= Len(y) /\ \A j \in 1 .. Len(x) : y[j] = x[j]
        <4>1. Len(y) = Len(x) + 1 /\ \A j \in 1 .. Len(x) : y[j] = x[j]
          BY <2>4, <3>2, OneMore
        <4> QED
          BY <2>4, <4>1
      <3> QED
        BY <2>3, <3>1, <3>2
    <2>6. CASE k = m
      BY <1>1, <2>1, <2>2, <2>6
    <2>7. CASE k # m
      <3>1. k \in 0 .. i
        BY <2>1, <2>7
      <3>2. Len(e[k]) \in Nat /\ Len(e[k]) <= Len(x) /\ \A j \in 1 .. Len(e[k]) : x[j] = e[k][j]
        BY <1>3, <2>1, <2>2, <3>1
      <3>3. Len(y) \in Nat
        BY <2>4
      <3> QED
        BY <2>1, <2>4, <2>5, <3>2, <3>3
    <2> QED
      BY <2>6, <2>7
  <1>4. \A i \in Nat : i \in U
    <2> HIDE DEF U
    <2> QED
      BY <1>2, <1>3, Induct
  <1>5. n \in U
    BY <1>4
  <1> QED
    BY <1>5 DEF Stays

-----------------------------------------------------------------------------
(* Brackets. *)

Turn(t) == IF t = "<" THEN 1 ELSE IF t = ">" THEN -1 ELSE 0

\* How often a token is among the first.
Times(f, t, k) == Cardinality({j \in 1 .. k : f[j] = t})

\* Tokens are counted one by one.
LEMMA Counts ==
  ASSUME NEW f, NEW t, NEW k \in Nat
  PROVE  /\ Times(f, t, 0) = 0 /\ Times(f, t, k) \in Nat
         /\ Times(f, t, k + 1) = IF f[k + 1] = t THEN Times(f, t, k) + 1 ELSE Times(f, t, k)
  <1>1. PICK s, r, m : s = {j \in 1 .. k : f[j] = t} /\ r = {j \in 1 .. m : f[j] = t} /\ m = k + 1
    OBVIOUS
  <1>2. IsFiniteSet(s)
    <2>1. IsFiniteSet(1 .. k)
      BY FS_Interval
    <2> QED
      BY <1>1, <2>1, FS_Subset
  <1>3. Cardinality(s) \in Nat
    BY <1>2, FS_CardinalityType
  <1>4. {j \in 1 .. 0 : f[j] = t} = {}
    OBVIOUS
  <1>5. CASE f[m] = t
    <2>1. r = s \cup {m} /\ m \notin s
      BY <1>1, <1>5
    <2>2. Cardinality(r) = Cardinality(s) + 1
      BY <1>2, <2>1, FS_AddElement
    <2> QED
      BY <1>1, <1>3, <1>4, <1>5, <2>2, FS_EmptySet DEF Times
  <1>6. CASE f[m] # t
    <2>1. r = s
      BY <1>1, <1>6
    <2> QED
      BY <1>1, <1>3, <1>4, <1>6, <2>1, FS_EmptySet DEF Times
  <1> QED
    BY <1>5, <1>6

\* Brackets are counted one by one.
LEMMA DepthSteps ==
  ASSUME NEW f
  PROVE  /\ Depth(f, 0) = 0
         /\ \A k \in Nat : Depth(f, k) \in Int /\ Depth(f, k + 1) = Depth(f, k) + Turn(f[k + 1])
  <1>1. \A k : Depth(f, k) = Times(f, "<", k) - Times(f, ">", k)
    BY DEF Depth, Times
  <1>2. Depth(f, 0) = 0
    <2>1. 0 \in Nat
      OBVIOUS
    <2>2. Times(f, "<", 0) = 0 /\ Times(f, ">", 0) = 0
      BY <2>1, Counts
    <2> QED
      BY <1>1, <2>2
  <1>3. ASSUME NEW k \in Nat PROVE Depth(f, k) \in Int /\ Depth(f, k + 1) = Depth(f, k) + Turn(f[k + 1])
    <2>1. Times(f, "<", k) \in Nat /\ Times(f, "<", k + 1) = IF f[k + 1] = "<" THEN Times(f, "<", k) + 1 ELSE Times(f, "<", k)
      BY Counts
    <2>2. Times(f, ">", k) \in Nat /\ Times(f, ">", k + 1) = IF f[k + 1] = ">" THEN Times(f, ">", k) + 1 ELSE Times(f, ">", k)
      BY Counts
    <2> QED
      BY <1>1, <2>1, <2>2 DEF Turn
  <1> QED
    BY <1>2, <1>3

\* What collapse appends.
Marks == {"<", "T>", ":line"}

\* What is left of a token when no bracket is let be.
Kept(f, out, k) ==
    IF f[k] = ">" THEN IF Depth(f, k - 1) = 1 THEN Append(out, "T>") ELSE out
    ELSE IF Depth(f, k - 1) = 0 THEN Append(out, f[k]) ELSE out

States(T) == [out : Seq(T), depth : Int, exception : BOOLEAN]

\* A round of collapse leaves text.
LEMMA CollapseIn ==
  ASSUME NEW T, Marks \subseteq T, NEW f \in Seq(T), NEW st \in States(T), NEW i \in 1 .. Len(f)
  PROVE  CollapseOne(f, st, i) \in States(T)
  <1>1. f[i] \in T /\ "<" \in T /\ "T>" \in T
    BY DEF Marks
  <1>2. \A d \in Int, c \in T : AppendIfNotInCollapseMode(st.out, d, c) \in Seq(T)
    BY DEF AppendIfNotInCollapseMode, States
  <1>3. st.depth \in Int /\ st.depth + 1 \in Int /\ st.depth - 1 \in Int
    BY DEF States
  <1>4. /\ AppendIfNotInCollapseMode(st.out, st.depth, "<") \in Seq(T)
        /\ AppendIfNotInCollapseMode(st.out, st.depth, "T>") \in Seq(T)
        /\ AppendIfNotInCollapseMode(st.out, st.depth - 1, "T>") \in Seq(T)
        /\ AppendIfNotInCollapseMode(st.out, st.depth, f[i]) \in Seq(T)
    BY <1>1, <1>2, <1>3
  <1> HIDE DEF AppendIfNotInCollapseMode
  <1> QED
    BY <1>3, <1>4 DEF CollapseOne, States

NoneOmitted(f) == "name omitted" \notin ToSet(f)

\* Then no bracket is let be.
LEMMA NoException == ASSUME NEW f, Len(f) \in Nat, DOMAIN f = 1 .. Len(f), NoneOmitted(f), NEW i \in 1 .. Len(f) PROVE ~IsCollapseException(f, i)
  <1>1. PICK x : x = "name omitted"
    OBVIOUS
  <1>2. x \notin {f[j] : j \in DOMAIN f}
    BY <1>1, Zenon DEF NoneOmitted, ToSet
  <1>3. \A j \in 1 .. Len(f) : f[j] # x
    BY <1>2
  <1>4. 1 \in 1 .. Len(f) /\ (i < Len(f) => i + 1 \in 1 .. Len(f))
    OBVIOUS
  <1>5. f[1] # x /\ ~(i < Len(f) /\ f[i + 1] = x)
    BY <1>3, <1>4
  <1> QED
    BY <1>1, <1>5, Zenon DEF IsCollapseException

\* Where no name is omitted, a round takes brackets as they are.
LEMMA CollapseKeeps ==
  ASSUME NEW T, NEW f \in Seq(T), NoneOmitted(f), NEW st \in States(T), NEW i \in 1 .. Len(f),
         st.depth = Depth(f, i - 1), st.exception = FALSE
  PROVE  LET r == CollapseOne(f, st, i)
         IN  r.depth = Depth(f, i) /\ r.exception = FALSE /\ r.out = Kept(f, st.out, i)
  <1>1. ~IsCollapseException(f, i)
    BY NoException
  <1>2. st.depth \in Int /\ Depth(f, i) = st.depth + Turn(f[i])
    <2>1. i - 1 \in Nat /\ (i - 1) + 1 = i
      OBVIOUS
    <2> QED
      BY <2>1, DepthSteps
  <1>3. CASE f[i] = "<"
    BY <1>1, <1>2, <1>3 DEF CollapseOne, AppendIfNotInCollapseMode, Kept, Turn, States
  <1>4. CASE f[i] = ">"
    BY <1>2, <1>4 DEF CollapseOne, AppendIfNotInCollapseMode, Kept, Turn, States
  <1>5. CASE f[i] \notin {"<", ">"}
    BY <1>2, <1>5 DEF CollapseOne, AppendIfNotInCollapseMode, Kept, Turn, States
  <1> QED
    BY <1>3, <1>4, <1>5

\* What collapse makes of a text, token by token.
Collapses(o, f, T) ==
    /\ o[0] = <<>> /\ \A k \in 1 .. Len(f) : o[k] = Kept(f, o[k - 1], k)
    /\ \A k \in 0 .. Len(f) : o[k] \in Seq(T)
    /\ Collapse(f) = o[Len(f)]

\* Where no name is omitted, collapse keeps token by token.
LEMMA CollapseRuns ==
  ASSUME NEW T, Marks \subseteq T, NEW f \in Seq(T), NoneOmitted(f)
  PROVE  \E o : Collapses(o, f, T)
  <1>1. PICK n, St : n = Len(f) /\ St = States(T)
    OBVIOUS
  <1>2. n \in Nat /\ Start \in St
    BY <1>1, NoTokens DEF Start, States
  <1>3. \A x \in St, i \in 1 .. Len(f) : Round("collapse", f, x, i) = CollapseOne(f, x, i) /\ CollapseOne(f, x, i) \in St
    BY <1>1, CollapseIn DEF Round
  <1>4. PICK c : Rounds("collapse", f, Start, c) /\ (\A k \in 0 .. Len(f) : c[k] \in St) /\ Passed("collapse", f, Start) = c[Len(f)]
    <2>1. f \in Seq(T) /\ \A x \in St, i \in 1 .. Len(f) : Round("collapse", f, x, i) \in St
      BY <1>3
    <2>2. Ran("collapse", f, Start, St)
      BY <1>2, <2>1, PassRuns
    <2> QED
      BY <2>2 DEF Ran
  <1>5. c[0] = Start /\ \A k \in 1 .. n : c[k] = CollapseOne(f, c[k - 1], k)
    <2>1. \A k \in 1 .. n : k - 1 \in 0 .. n
      BY <1>2
    <2> QED
      BY <1>1, <1>3, <1>4, <2>1 DEF Rounds
  <1>6. PICK level : level = [k \in Nat |-> [depth |-> Depth(f, k), exception |-> FALSE]]
    OBVIOUS
  <1>7. PICK at0 : at0 = [k \in Nat |-> [depth |-> c[k].depth, exception |-> c[k].exception]]
    OBVIOUS
  <1> DEFINE U == {k \in Nat : k <= n => at0[k] = level[k]}
  <1>u. ASSUME NEW k \in Nat PROVE at0[k] = level[k] <=> c[k].depth = Depth(f, k) /\ c[k].exception = FALSE
    BY <1>6, <1>7
  <1>0. 0 \in U
    <2>1. c[0].depth = Depth(f, 0) /\ c[0].exception = FALSE
      BY <1>5, DepthSteps DEF Start
    <2> QED
      BY <1>u, <2>1
  <1>s. ASSUME NEW k \in Nat, k \in U PROVE k + 1 \in U
    <2> SUFFICES ASSUME k + 1 <= n PROVE at0[k + 1] = level[k + 1]
      OBVIOUS
    <2>1. PICK j, st : j = k + 1 /\ st = c[k]
      OBVIOUS
    <2>2. k <= n /\ at0[k] = level[k]
      BY <1>2, <1>s
    <2>3. j \in 1 .. Len(f) /\ j - 1 = k /\ k \in 0 .. n /\ j \in Nat
      BY <1>1, <1>2, <2>1
    <2>4. st.depth = Depth(f, j - 1) /\ st.exception = FALSE
      BY <1>u, <2>1, <2>2, <2>3
    <2>5. st \in States(T) /\ c[j] = CollapseOne(f, st, j)
      BY <1>1, <1>4, <1>5, <2>1, <2>3
    <2>6. CollapseOne(f, st, j).depth = Depth(f, j) /\ CollapseOne(f, st, j).exception = FALSE
      BY <2>3, <2>4, <2>5, CollapseKeeps
    <2> QED
      BY <1>u, <2>1, <2>3, <2>5, <2>6
  <1>8. \A k \in Nat : k <= n => c[k].depth = Depth(f, k) /\ c[k].exception = FALSE
    <2>1. \A k \in Nat : k \in U
      <3> HIDE DEF U
      <3> QED
        BY <1>0, <1>s, Induct
    <2> QED
      BY <1>u, <2>1
  <1>9. PICK o : o = [k \in 0 .. n |-> c[k].out]
    OBVIOUS
  <1>10. ASSUME NEW k \in 1 .. n PROVE o[k] = Kept(f, o[k - 1], k)
    <2>1. k - 1 \in 0 .. n /\ k \in 0 .. n /\ k - 1 \in Nat /\ k - 1 <= n /\ k \in 1 .. Len(f)
      BY <1>1, <1>2
    <2>2. c[k - 1].depth = Depth(f, k - 1) /\ c[k - 1].exception = FALSE
      BY <1>8, <2>1
    <2>3. PICK st : st = c[k - 1]
      OBVIOUS
    <2>4. st \in States(T) /\ c[k] = CollapseOne(f, st, k) /\ st.depth = Depth(f, k - 1) /\ st.exception = FALSE
      BY <1>1, <1>4, <1>5, <2>1, <2>2, <2>3
    <2>5. CollapseOne(f, st, k).out = Kept(f, st.out, k)
      BY <2>1, <2>4, CollapseKeeps
    <2> QED
      BY <1>9, <2>1, <2>3, <2>4, <2>5
  <1>11. \A k \in 0 .. n : o[k] \in Seq(T)
    BY <1>1, <1>4, <1>9 DEF States
  <1>12. Collapse(f) = o[n] /\ o[0] = <<>>
    BY <1>1, <1>2, <1>4, <1>5, <1>9, PassesAre DEF Start
  <1> QED
    BY <1>1, <1>10, <1>11, <1>12 DEF Collapses

\* One token, or none, after a text.
LEMMA OneAfter ==
  ASSUME NEW T, NEW s \in Seq(T), NEW t \in T
  PROVE  s \o <<t>> = Append(s, t) /\ s \o <<>> = s /\ <<t>> \in Seq(T)
  OBVIOUS

\* The brackets of a template.
LEMMA TemplatedIs ==
  ASSUME NEW T, NEW f \in Seq(T), Templated(f)
  PROVE  /\ NoneOmitted(f) /\ Len(f) \in Nat /\ Depth(f, Len(f)) = 0
         /\ \A k \in 0 .. Len(f) : Depth(f, k) \in Nat
         /\ \A k \in 1 .. Len(f) : Depth(f, k) = Depth(f, k - 1) + Turn(f[k])
  <1>1. NoneOmitted(f)
    BY DEF Templated, NoneOmitted
  <1>2. Balanced(f)
    BY DEF Templated
  <1>3. (\A i \in 1 .. Len(f) : Depth(f, i) >= 0) /\ Depth(f, Len(f)) = 0
    BY <1>2, Zenon DEF Balanced
  <1>4. \A k \in 0 .. Len(f) : Depth(f, k) \in Nat
    <2> SUFFICES ASSUME NEW k \in 0 .. Len(f) PROVE Depth(f, k) \in Nat
      OBVIOUS
    <2>1. k \in Nat /\ (k = 0 \/ k \in 1 .. Len(f))
      OBVIOUS
    <2>2. Depth(f, k) \in Int
      BY <2>1, DepthSteps
    <2> QED
      BY <1>3, <2>1, <2>2, DepthSteps
  <1>5. ASSUME NEW k \in 1 .. Len(f) PROVE Depth(f, k) = Depth(f, k - 1) + Turn(f[k])
    <2>1. k - 1 \in Nat /\ (k - 1) + 1 = k
      OBVIOUS
    <2> QED
      BY <2>1, DepthSteps
  <1> QED
    BY <1>1, <1>3, <1>4, <1>5

\* Collapsing keeps what is outside the brackets, and them.
LEMMA CollapseIsOutside ==
  ASSUME NEW T, Marks \subseteq T, NEW f \in Seq(T), Templated(f)
  PROVE  Collapse(f) = Outside(f)
  <1>1. PICK n : n = Len(f)
    OBVIOUS
  <1>2. /\ NoneOmitted(f) /\ n \in Nat
        /\ (\A k \in 0 .. n : Depth(f, k) \in Nat)
        /\ \A k \in 1 .. n : Depth(f, k) = Depth(f, k - 1) + Turn(f[k])
    BY <1>1, TemplatedIs
  <1>3. PICK o : Collapses(o, f, T)
    BY <1>2, CollapseRuns
  <1>4. PICK p : p = [i \in 1 .. Len(f) |->
             IF Depth(f, i - 1) = 0 THEN <<f[i]>> ELSE IF Depth(f, i) = 0 THEN <<"T>">> ELSE <<>>]
    OBVIOUS
  <1>5. Outside(f) = FlattenSeq(p)
    BY <1>4 DEF Outside
  <1>6. \A i \in 1 .. n : /\ p[i] = IF Depth(f, i - 1) = 0 THEN <<f[i]>> ELSE IF Depth(f, i) = 0 THEN <<"T>">> ELSE <<>>
                          /\ f[i] \in T
    BY <1>1, <1>4
  <1>7. "T>" \in T
    BY DEF Marks
  <1>8. p \in Seq(Seq(T)) /\ Len(p) = n
    <2>1. \A i \in 1 .. n : p[i] \in Seq(T)
      BY <1>6, <1>7, OneAfter, NoTokens
    <2>2. PICK St : St = Seq(T)
      OBVIOUS
    <2>3. p = [i \in 1 .. n |-> p[i]]
      BY <1>1, <1>4
    <2>4. p \in Seq(St) /\ Len(p) = n
      BY <1>2, <2>1, <2>2, <2>3
    <2> QED
      BY <2>2, <2>4
  <1>9. PICK e : Joins(e, p) /\ (\A k \in 0 .. Len(p) : e[k] \in Seq(T)) /\ FlattenSeq(p) = e[Len(p)]
    <2>1. Joined(p, T)
      BY <1>8, Flattened
    <2> QED
      BY <2>1 DEF Joined
  <1>10. /\ e[0] = <<>> /\ (\A k \in 1 .. n : e[k] = e[k - 1] \o p[k]) /\ FlattenSeq(p) = e[n]
         /\ \A k \in 0 .. n : e[k] \in Seq(T)
    BY <1>8, <1>9 DEF Joins
  <1>11. o[0] = <<>> /\ (\A k \in 1 .. n : o[k] = Kept(f, o[k - 1], k)) /\ Collapse(f) = o[n]
    BY <1>1, <1>3 DEF Collapses
  <1>12. ASSUME NEW k \in 1 .. n, NEW x \in Seq(T) PROVE x \o p[k] = Kept(f, x, k)
    <2>1. k - 1 \in 0 .. n /\ k \in 0 .. n
      BY <1>2
    <2>2. PICK d, u : d = Depth(f, k - 1) /\ u = Depth(f, k)
      OBVIOUS
    <2>3. d \in Nat /\ u \in Nat /\ u = d + Turn(f[k])
      BY <1>2, <2>1, <2>2
    <2>4. CASE f[k] = ">"
      <3>1. d # 0 /\ (u = 0 <=> d = 1)
        BY <2>3, <2>4 DEF Turn
      <3>2. p[k] = IF d = 1 THEN <<"T>">> ELSE <<>>
        BY <1>6, <2>2, <3>1
      <3>3. Kept(f, x, k) = IF d = 1 THEN Append(x, "T>") ELSE x
        BY <2>2, <2>4 DEF Kept
      <3> QED
        BY <1>7, <3>2, <3>3, OneAfter
    <2>5. CASE f[k] # ">"
      <3>1. d # 0 => u # 0
        BY <2>3, <2>5 DEF Turn
      <3>2. p[k] = IF d = 0 THEN <<f[k]>> ELSE <<>>
        BY <1>6, <2>2, <3>1
      <3>3. Kept(f, x, k) = IF d = 0 THEN Append(x, f[k]) ELSE x
        BY <2>2, <2>5 DEF Kept
      <3> QED
        BY <1>6, <1>7, <3>2, <3>3, OneAfter
    <2> QED
      BY <2>4, <2>5
  <1> DEFINE U == {k \in Nat : k <= n => e[k] = o[k]}
  <1>13. 0 \in U
    BY <1>10, <1>11
  <1>14. ASSUME NEW k \in Nat, k \in U PROVE k + 1 \in U
    <2> SUFFICES ASSUME k + 1 <= n PROVE e[k + 1] = o[k + 1]
      OBVIOUS
    <2>1. PICK j : j = k + 1
      OBVIOUS
    <2>2. j \in 1 .. n /\ j - 1 = k /\ k \in 0 .. n /\ e[k] = o[k]
      BY <1>2, <1>14, <2>1
    <2>3. e[j] = e[k] \o p[j] /\ o[j] = Kept(f, o[k], j) /\ e[k] \in Seq(T)
      BY <1>10, <1>11, <2>2
    <2> QED
      BY <1>12, <2>1, <2>2, <2>3
  <1>15. \A k \in Nat : k \in U
    <2> HIDE DEF U
    <2> QED
      BY <1>13, <1>14, Induct
  <1> QED
    BY <1>2, <1>5, <1>10, <1>11, <1>15

-----------------------------------------------------------------------------
(* Spellings. *)

Space == " "

\* A space before a comma or a pointer, or after a comma.
Squeezable(f, i) == f[i] = Space /\ ((i < Len(f) /\ f[i + 1] \in NoSpaceBefore) \/ (i > 1 /\ f[i - 1] = ","))

\* What is taken of a token at a depth.
Take(d, t, out) ==
    IF t = ">" THEN IF d = 1 THEN Append(out, "T>") ELSE out ELSE IF d = 0 THEN Append(out, t) ELSE out

\* What the text so far ends with.
EndsAs(f, a, k) ==
    IF k = 0 THEN \A c : ~Ends(a, c) ELSE Depth(f, k) = 0 => Ends(a, IF f[k] = ">" THEN "T>" ELSE f[k])

\* A space that the other spelling does not have, and that makes no difference.
Pending(f, a, b, k, T) == \E x \in Seq(T) :
    /\ a = Append(x, Space) /\ Alike(x, b) /\ ~Ends(x, Space)
    /\ (k < Len(f) /\ f[k + 1] \in NoSpaceBefore) \/ Ends(x, ",")

\* What is kept of both spellings.
Agree(f, a, b, k, T) ==
    /\ EndsAs(f, a, k)
    /\ IF k # 0 /\ Depth(f, k) = 0 /\ Squeezable(f, k) THEN Pending(f, a, b, k, T) ELSE Alike(a, b)

SingleSpaced(f) == \A j \in 1 .. Len(f) - 1 : f[j] # Space \/ f[j + 1] # Space

\* A space is no other token.
LEMMA SpaceIs ==
  /\ Space # "<" /\ Space # ">" /\ Space # "," /\ Space # "T>" /\ Space # ":line"
  /\ Space \notin NoSpaceBefore /\ "T>" \notin NoSpaceBefore /\ ":line" \notin NoSpaceBefore
  <1>1. Space # "<" /\ Space # ">" /\ Space # "," /\ Space # "T>" /\ Space # ":line" /\ Space # "*" /\ Space # "&"
    BY Zenon DEF Space
  <1> QED
    BY <1>1 DEF NoSpaceBefore

\* What is alike stays so, and a space is caught up with.
LEMMA AlikeSpace ==
  ASSUME NEW T, Spacing \subseteq T, NEW a \in Seq(T), NEW b \in Seq(T), Alike(a, b), NEW t \in T
  PROVE  /\ ~(Ends(a, Space) /\ t \in NoSpaceBefore) => Alike(Append(a, t), Append(b, t))
         /\ ~Ends(a, Space) /\ t # Space /\ (t \in NoSpaceBefore \/ Ends(a, ","))
              => Alike(Append(Append(a, Space), t), Append(b, t))
  <1>1. ASSUME ~(Ends(a, Space) /\ t \in NoSpaceBefore) PROVE Alike(Append(a, t), Append(b, t))
    <2>1. ~(Ends(a, " ") /\ t \in NoSpaceBefore)
      BY <1>1, Zenon DEF Space
    <2> QED
      BY <2>1, AlikeGrow, Zenon
  <1>2. ASSUME ~Ends(a, Space), t # Space, t \in NoSpaceBefore \/ Ends(a, ",")
        PROVE  Alike(Append(Append(a, Space), t), Append(b, t))
    <2>1. ~Ends(a, " ") /\ t # " "
      BY <1>2, Zenon DEF Space
    <2>2. Alike(Append(Append(a, " "), t), Append(b, t))
      BY <1>2, <2>1, AlikeCatch, Zenon
    <2> QED
      BY <2>2, Zenon DEF Space
  <1> QED
    BY <1>1, <1>2

\* What a text ends with is one token.
LEMMA EndsOne == ASSUME NEW a, NEW s, NEW t, Ends(a, s), Ends(a, t) PROVE s = t
  BY DEF Ends

\* A space that is squeezed.
LEMMA AgreeSkip ==
  ASSUME NEW T, Spacing \subseteq T, NEW f \in Seq(T), SingleSpaced(f), NEW a \in Seq(T), NEW b \in Seq(T), NEW k \in Nat, NEW j,
         j = k + 1, j <= Len(f), Squeezable(f, j), Depth(f, k) \in Nat, Depth(f, j) = Depth(f, k) + Turn(f[j]),
         Agree(f, a, b, k, T)
  PROVE  Agree(f, Take(Depth(f, k), f[j], a), b, j, T) /\ Depth(f, j) = Depth(f, k)
  <1>1. f[j] = Space /\ ((j < Len(f) /\ f[j + 1] \in NoSpaceBefore) \/ (j > 1 /\ f[j - 1] = ","))
    BY DEF Squeezable
  <1>2. Depth(f, j) = Depth(f, k)
    <2>1. Turn(f[j]) = 0
      BY <1>1, SpaceIs DEF Turn
    <2>2. PICK x, y : x = Depth(f, k) /\ y = Depth(f, j)
      OBVIOUS
    <2>3. x \in Nat /\ y = x + 0
      BY <2>1, <2>2
    <2> QED
      BY <2>2, <2>3
  <1>3. Space \in T
    BY Zenon DEF Space, Spacing
  <1>4. PICK d, r : d = Depth(f, k) /\ r = Take(d, f[j], a)
    OBVIOUS
  <1>5. j # 0 /\ j \in 1 .. Len(f) /\ j - 1 = k
    OBVIOUS
  <1>6. k # 0 => f[k] # Space
    <2> SUFFICES ASSUME k # 0 PROVE f[k] # Space
      OBVIOUS
    <2>1. k \in 1 .. Len(f) - 1 /\ k + 1 = j
      BY <1>5
    <2> QED
      BY <1>1, <2>1 DEF SingleSpaced
  <1>7. Alike(a, b)
    <2>1. ~(k # 0 /\ Squeezable(f, k))
      BY <1>6 DEF Squeezable
    <2> QED
      BY <2>1 DEF Agree
  <1>8. EndsAs(f, a, k)
    BY DEF Agree
  <1>9. CASE d # 0
    <2>1. r = a
      BY <1>1, <1>4, <1>9, SpaceIs DEF Take
    <2>2. Depth(f, j) # 0
      BY <1>2, <1>4, <1>9
    <2>3. EndsAs(f, a, j)
      BY <1>5, <2>2 DEF EndsAs
    <2> QED
      BY <1>2, <1>4, <1>7, <2>1, <2>2, <2>3 DEF Agree
  <1>10. CASE d = 0
    <2>1. r = Append(a, Space)
      BY <1>1, <1>4, <1>10, SpaceIs DEF Take
    <2>2. Ends(r, Space)
      BY <1>3, <2>1, OneMore
    <2>3. EndsAs(f, r, j)
      BY <1>1, <1>5, <2>2, SpaceIs DEF EndsAs
    <2>4. k # 0 => Ends(a, IF f[k] = ">" THEN "T>" ELSE f[k])
      BY <1>4, <1>8, <1>10 DEF EndsAs
    <2>5. ~Ends(a, Space)
      <3>1. CASE k = 0
        BY <1>8, <3>1 DEF EndsAs
      <3>2. CASE k # 0
        BY <1>6, <2>4, <3>2, EndsOne, SpaceIs
      <3> QED
        BY <3>1, <3>2
    <2>6. j > 1 /\ f[j - 1] = "," => Ends(a, ",")
      <3>1. j > 1 => k # 0
        OBVIOUS
      <3>2. "," # ">"
        OBVIOUS
      <3> QED
        BY <1>5, <2>4, <3>1, <3>2
    <2>7. Pending(f, r, b, j, T)
      BY <1>1, <1>7, <2>1, <2>5, <2>6 DEF Pending
    <2>8. Depth(f, j) = 0
      BY <1>2, <1>4, <1>10
    <2> QED
      BY <1>2, <1>4, <1>5, <2>3, <2>7, <2>8 DEF Agree
  <1> QED
    BY <1>9, <1>10

\* A token that both spellings have.
LEMMA AgreeBoth ==
  ASSUME NEW T, Spacing \subseteq T, Marks \subseteq T, NEW f \in Seq(T), SingleSpaced(f), NEW a \in Seq(T), NEW b \in Seq(T),
         NEW k \in Nat, NEW j, j = k + 1, j <= Len(f), ~Squeezable(f, j),
         Depth(f, k) \in Nat, Depth(f, j) = Depth(f, k) + Turn(f[j]), Depth(f, j) \in Nat, Agree(f, a, b, k, T)
  PROVE  Agree(f, Take(Depth(f, k), f[j], a), Take(Depth(f, k), f[j], b), j, T)
  <1>1. PICK d, t, r, s : d = Depth(f, k) /\ t = f[j] /\ r = Take(d, t, a) /\ s = Take(d, t, b)
    OBVIOUS
  <1>2. j # 0 /\ j \in 1 .. Len(f) /\ j - 1 = k /\ d \in Nat /\ Depth(f, j) = d + Turn(t) /\ Depth(f, j) \in Nat
    BY <1>1
  <1>3. t \in T
    BY <1>1, <1>2
  <1>4. "T>" \in T
    BY DEF Marks
  <1>5. EndsAs(f, a, k)
    BY DEF Agree
  <1>6. d # 0 => Alike(a, b)
    BY <1>1 DEF Agree
  <1>7. EndsAs(f, r, j) /\ Alike(r, s)
    <2>1. CASE t = ">" /\ d = 1
      <3>1. r = Append(a, "T>") /\ s = Append(b, "T>")
        BY <1>1, <2>1 DEF Take
      <3>2. Ends(r, "T>")
        BY <1>4, <3>1, OneMore
      <3>3. Alike(Append(a, "T>"), Append(b, "T>"))
        <4>1. PICK m : m = "T>"
          OBVIOUS
        <4>2. m \in T /\ m \notin NoSpaceBefore /\ Alike(a, b)
          <5>1. m \in T
            BY <1>4, <4>1
          <5>2. m \notin NoSpaceBefore
            BY <4>1, SpaceIs
          <5>3. Alike(a, b)
            BY <1>6, <2>1
          <5> QED
            BY <5>1, <5>2, <5>3
        <4>3. Alike(Append(a, m), Append(b, m))
          BY <4>2, AlikeSpace
        <4> QED
          BY <4>1, <4>3
      <3> QED
        BY <1>1, <1>2, <2>1, <3>1, <3>2, <3>3 DEF EndsAs
    <2>2. CASE t = ">" /\ d # 1
      <3>1. d # 0 /\ Depth(f, j) # 0
        BY <1>2, <2>2 DEF Turn
      <3>2. r = a /\ s = b
        BY <1>1, <2>2 DEF Take
      <3> QED
        BY <1>2, <1>6, <3>1, <3>2 DEF EndsAs
    <2>3. CASE t # ">" /\ d # 0
      <3>1. Depth(f, j) # 0
        BY <1>2, <2>3 DEF Turn
      <3>2. r = a /\ s = b
        BY <1>1, <2>3 DEF Take
      <3> QED
        BY <1>2, <1>6, <2>3, <3>1, <3>2 DEF EndsAs
    <2>4. CASE t # ">" /\ d = 0
      <3>1. r = Append(a, t) /\ s = Append(b, t)
        BY <1>1, <2>4 DEF Take
      <3>2. Ends(r, t)
        BY <1>3, <3>1, OneMore
      <3>3. EndsAs(f, r, j)
        BY <1>1, <1>2, <2>4, <3>2 DEF EndsAs
      <3>4. CASE k # 0 /\ Squeezable(f, k)
        <4>1. Pending(f, a, b, k, T)
          BY <1>1, <2>4, <3>4 DEF Agree
        <4>2. PICK x \in Seq(T) : /\ a = Append(x, Space) /\ Alike(x, b) /\ ~Ends(x, Space)
                                  /\ (k < Len(f) /\ f[k + 1] \in NoSpaceBefore) \/ Ends(x, ",")
          BY <4>1 DEF Pending
        <4>3. t # Space
          <5>1. f[k] = Space
            BY <3>4 DEF Squeezable
          <5>2. k \in 1 .. Len(f) - 1 /\ k + 1 = j
            BY <1>2, <3>4
          <5> QED
            BY <1>1, <5>1, <5>2 DEF SingleSpaced
        <4>4. t \in NoSpaceBefore \/ Ends(x, ",")
          BY <1>1, <4>2
        <4>5. Alike(Append(Append(x, Space), t), Append(b, t))
          BY <1>3, <4>2, <4>3, <4>4, AlikeSpace
        <4> QED
          BY <3>1, <3>3, <4>2, <4>5
      <3>5. CASE ~(k # 0 /\ Squeezable(f, k))
        <4>1. Alike(a, b)
          BY <3>5 DEF Agree
        <4>2. ~(Ends(a, Space) /\ t \in NoSpaceBefore)
          <5> SUFFICES ASSUME Ends(a, Space), t \in NoSpaceBefore PROVE FALSE
            OBVIOUS
          <5>1. k # 0
            BY <1>5 DEF EndsAs
          <5>2. Ends(a, IF f[k] = ">" THEN "T>" ELSE f[k])
            BY <1>1, <1>5, <2>4, <5>1 DEF EndsAs
          <5>3. f[k] = Space
            BY <5>2, EndsOne, SpaceIs
          <5>4. k < Len(f) /\ f[k + 1] \in NoSpaceBefore
            BY <1>1, <1>2
          <5> QED
            BY <3>5, <5>1, <5>3, <5>4 DEF Squeezable
        <4>3. Alike(Append(a, t), Append(b, t))
          BY <1>3, <4>1, <4>2, AlikeSpace
        <4> QED
          BY <3>1, <3>3, <4>3
      <3> QED
        BY <3>4, <3>5
    <2> QED
      BY <2>1, <2>2, <2>3, <2>4
  <1> QED
    BY <1>1, <1>7 DEF Agree

\* Squeezing, token by token.
Squeezes(q, f, T) ==
    /\ q[0] = <<>> /\ \A k \in 1 .. Len(f) : q[k] = IF Squeezable(f, k) THEN q[k - 1] ELSE Append(q[k - 1], f[k])
    /\ \A k \in 0 .. Len(f) : q[k] \in Seq(T)
    /\ Squeezed(f) = q[Len(f)]

\* A text is squeezed token by token.
LEMMA SqueezeRuns == ASSUME NEW T, NEW f \in Seq(T) PROVE \E q : Squeezes(q, f, T)
  <1>1. PICK n : n = Len(f)
    OBVIOUS
  <1>2. n \in Nat /\ \A k \in 1 .. n : f[k] \in T
    BY <1>1
  <1>3. PICK p : p = [i \in 1 .. Len(f) |-> IF Squeezable(f, i) THEN <<>> ELSE <<f[i]>>]
    OBVIOUS
  <1>4. Squeezed(f) = FlattenSeq(p)
    BY <1>3, Zenon DEF Squeezed, Squeezable, Space, NoSpaceBefore
  <1>5. \A i \in 1 .. n : p[i] = IF Squeezable(f, i) THEN <<>> ELSE <<f[i]>>
    BY <1>1, <1>3
  <1>6. p \in Seq(Seq(T)) /\ Len(p) = n
    <2>1. \A i \in 1 .. n : p[i] \in Seq(T)
      BY <1>2, <1>5, OneAfter, NoTokens
    <2>2. PICK St : St = Seq(T)
      OBVIOUS
    <2>3. p \in [1 .. n -> St]
      BY <1>1, <1>3, <2>1, <2>2
    <2>4. p \in Seq(St) /\ Len(p) = n
      BY <1>2, <2>3
    <2> QED
      BY <2>2, <2>4
  <1>7. PICK q : Joins(q, p) /\ (\A k \in 0 .. Len(p) : q[k] \in Seq(T)) /\ FlattenSeq(p) = q[Len(p)]
    <2>1. Joined(p, T)
      BY <1>6, Flattened
    <2> QED
      BY <2>1 DEF Joined
  <1>8. ASSUME NEW k \in 1 .. n PROVE q[k] = IF Squeezable(f, k) THEN q[k - 1] ELSE Append(q[k - 1], f[k])
    <2>1. k - 1 \in 0 .. n
      BY <1>2
    <2>2. PICK x : x = q[k - 1]
      OBVIOUS
    <2>3. x \in Seq(T) /\ q[k] = x \o p[k]
      BY <1>6, <1>7, <2>1, <2>2 DEF Joins
    <2>4. x \o <<>> = x /\ x \o <<f[k]>> = Append(x, f[k])
      BY <1>2, <2>3, OneAfter
    <2> QED
      BY <1>5, <2>2, <2>3, <2>4
  <1> QED
    BY <1>1, <1>4, <1>6, <1>7, <1>8 DEF Squeezes, Joins

\* Tokens without an omitted name.
Named(T) == "name omitted" \notin T

\* Then no text has one.
LEMMA NamedIs == ASSUME NEW T, Named(T), NEW f \in Seq(T) PROVE NoneOmitted(f)
  <1>1. PICK x : x = "name omitted"
    OBVIOUS
  <1>2. x \notin T
    BY <1>1, Zenon DEF Named
  <1>3. ToSet(f) \subseteq T
    <2>1. \A i \in DOMAIN f : f[i] \in T
      BY ElementsIn
    <2> QED
      BY <2>1, Zenon DEF ToSet
  <1> QED
    BY <1>1, <1>2, <1>3, Zenon DEF NoneOmitted

\* The two spellings, as far as the first one was read.
InStep(f, g, o, u, q, k, T) ==
    Depth(g, Len(q[k])) = Depth(f, k) /\ Agree(f, o[k], u[Len(q[k])], k, T)

\* One token more is read.
LEMMA StepOn ==
  ASSUME NEW T, Spacing \subseteq T, Marks \subseteq T, Named(T), NEW f \in Seq(T), Templated(f), SingleSpaced(f),
         NEW q, Squeezes(q, f, T), NEW g, g = q[Len(f)], NEW o, Collapses(o, f, T), NEW u, Collapses(u, g, T),
         NEW k \in Nat, NEW j, j = k + 1, j <= Len(f),
         Stays(q, Len(f)), InStep(f, g, o, u, q, k, T)
  PROVE  InStep(f, g, o, u, q, j, T)
  <1>x. PICK x, y : x = q[k] /\ y = q[j]
    OBVIOUS
  <1>1. PICK n, d, a, b : n = Len(f) /\ d = Depth(f, k) /\ a = o[k] /\ b = u[Len(x)]
    OBVIOUS
  <1>2. n \in Nat /\ j \in 1 .. n /\ j - 1 = k /\ k \in 0 .. n /\ j \in 0 .. n
    BY <1>1
  <1>y. Len(y) <= Len(g) /\ \A i \in 1 .. Len(y) : g[i] = y[i]
    BY <1>1, <1>2, <1>x DEF Stays
  <1>3. /\ d \in Nat /\ Depth(f, j) \in Nat /\ Depth(f, j) = d + Turn(f[j])
    BY <1>1, <1>2, TemplatedIs
  <1>4. x \in Seq(T) /\ y \in Seq(T) /\ y = IF Squeezable(f, j) THEN x ELSE Append(x, f[j])
    BY <1>1, <1>2, <1>x DEF Squeezes
  <1>5. Len(x) \in Nat /\ f[j] \in T
    BY <1>1, <1>2, <1>4
  <1>6. Depth(g, Len(x)) = d /\ Agree(f, a, b, k, T)
    BY <1>1, <1>x DEF InStep
  <1>7. g \in Seq(T) /\ Len(g) \in Nat
    BY <1>1, <1>2 DEF Squeezes
  <1>8. o[j] = Take(d, f[j], a) /\ a \in Seq(T)
    BY <1>1, <1>2 DEF Collapses, Kept, Take
  <1>9. CASE Squeezable(f, j)
    <2>1. y = x
      BY <1>4, <1>9
    <2>2. Len(x) \in 0 .. Len(g)
      BY <1>5, <1>7, <1>y, <2>1
    <2>3. b \in Seq(T)
      BY <1>1, <2>2 DEF Collapses
    <2>4. Agree(f, Take(d, f[j], a), b, j, T) /\ Depth(f, j) = d
      <3>1. Depth(f, k) \in Nat /\ Depth(f, j) = Depth(f, k) + Turn(f[j])
        BY <1>1, <1>3
      <3>2. Agree(f, Take(Depth(f, k), f[j], a), b, j, T) /\ Depth(f, j) = Depth(f, k)
        BY <1>6, <1>8, <1>9, <2>3, <3>1, AgreeSkip
      <3> QED
        BY <1>1, <3>2
    <2> QED
      BY <1>1, <1>6, <1>8, <1>x, <2>1, <2>4 DEF InStep
  <1>10. CASE ~Squeezable(f, j)
    <2>1. PICK m : m = Len(x) + 1
      OBVIOUS
    <2>2. Len(y) = m /\ y[m] = f[j] /\ m \in Nat /\ m \in 1 .. Len(y)
      BY <1>4, <1>5, <1>10, <2>1, OneMore
    <2>3. m \in 1 .. Len(g) /\ m - 1 = Len(x) /\ Len(x) \in 0 .. Len(g) /\ g[m] = f[j]
      BY <1>5, <1>7, <1>y, <2>1, <2>2
    <2>4. b \in Seq(T)
      BY <1>1, <2>3 DEF Collapses
    <2>5. u[m] = Take(d, f[j], b)
      BY <1>1, <1>6, <2>3 DEF Collapses, Kept, Take
    <2>6. Depth(g, m) = Depth(f, j)
      <3>1. PICK l : l = Len(x)
        OBVIOUS
      <3>2. l \in Nat
        BY <1>5, <3>1
      <3>3. Depth(g, l + 1) = Depth(g, l) + Turn(g[l + 1])
        BY <3>2, DepthSteps
      <3>4. m = l + 1 /\ Depth(g, l) = d
        BY <1>6, <2>1, <3>1
      <3> QED
        BY <1>3, <2>3, <3>3, <3>4
    <2>7. Agree(f, Take(d, f[j], a), Take(d, f[j], b), j, T)
      <3>1. Depth(f, k) \in Nat /\ Depth(f, j) = Depth(f, k) + Turn(f[j]) /\ Depth(f, j) \in Nat
        BY <1>1, <1>3
      <3>2. Agree(f, Take(Depth(f, k), f[j], a), Take(Depth(f, k), f[j], b), j, T)
        BY <1>6, <1>8, <1>10, <2>4, <3>1, AgreeBoth
      <3> QED
        BY <1>1, <3>2
    <2> QED
      BY <1>8, <1>x, <2>2, <2>5, <2>6, <2>7 DEF InStep
  <1> QED
    BY <1>9, <1>10

\* The two spellings of a function, with its line.
LEMMA SqueezedAgrees ==
  ASSUME NEW T, Spacing \subseteq T, Marks \subseteq T, Named(T), NEW f \in Seq(T), Templated(f), SingleSpaced(f)
  PROVE  Spaced(Collapse(f) \o <<":line">>) = Spaced(Collapse(Squeezed(f)) \o <<":line">>)
  <1>1. PICK n, g : n = Len(f) /\ g = Squeezed(f)
    OBVIOUS
  <1>2. PICK q : Squeezes(q, f, T)
    BY SqueezeRuns
  <1>3. /\ n \in Nat /\ (\A k \in 0 .. n : q[k] \in Seq(T)) /\ q[0] = <<>> /\ g = q[n]
        /\ \A k \in 1 .. n : q[k] = IF Squeezable(f, k) THEN q[k - 1] ELSE Append(q[k - 1], f[k])
        /\ \A k \in 1 .. n : f[k] \in T
    BY <1>1, <1>2 DEF Squeezes
  <1>4. Stays(q, n)
    <2>1. \A k \in 1 .. n : q[k] = q[k - 1] \/ \E t \in T : q[k] = Append(q[k - 1], t)
      BY <1>3
    <2>2. n \in Nat /\ \A k \in 0 .. n : q[k] \in Seq(T)
      BY <1>3
    <2> QED
      BY <2>1, <2>2, PrefixStays
  <1>5. g \in Seq(T)
    BY <1>3
  <1>6. PICK o : Collapses(o, f, T)
    <2>1. NoneOmitted(f)
      BY NamedIs
    <2> QED
      BY <2>1, CollapseRuns
  <1>7. PICK u : Collapses(u, g, T)
    <2>1. NoneOmitted(g)
      BY <1>5, NamedIs
    <2> QED
      BY <1>5, <2>1, CollapseRuns
  <1> DEFINE U == {k \in Nat : k <= n => InStep(f, g, o, u, q, k, T)}
  <1>8. 0 \in U
    <2>1. o[0] = <<>> /\ u[0] = <<>> /\ Len(q[0]) = 0
      BY <1>3, <1>6, <1>7 DEF Collapses
    <2>2. Depth(g, 0) = Depth(f, 0)
      BY DepthSteps
    <2>3. \A c : ~Ends(<<>>, c)
      BY DEF Ends
    <2>4. Alike(<<>>, <<>>)
      BY DEF Alike
    <2>5. Agree(f, <<>>, <<>>, 0, T)
      BY <2>3, <2>4 DEF Agree, EndsAs
    <2>6. InStep(f, g, o, u, q, 0, T)
      BY <2>1, <2>2, <2>5 DEF InStep
    <2> QED
      BY <2>6
  <1>9. ASSUME NEW k \in Nat, k \in U PROVE k + 1 \in U
    <2> SUFFICES ASSUME k + 1 <= n PROVE InStep(f, g, o, u, q, k + 1, T)
      OBVIOUS
    <2>1. PICK j : j = k + 1
      OBVIOUS
    <2>2. j <= Len(f) /\ g = q[Len(f)] /\ Stays(q, Len(f))
      BY <1>1, <1>3, <1>4, <2>1
    <2>3. InStep(f, g, o, u, q, k, T)
      BY <1>3, <1>9
    <2>4. InStep(f, g, o, u, q, j, T)
      BY <1>2, <1>6, <1>7, <2>1, <2>2, <2>3, StepOn
    <2> QED
      BY <2>1, <2>4
  <1>10. InStep(f, g, o, u, q, n, T)
    <2>1. \A k \in Nat : k \in U
      <3> HIDE DEF U
      <3> QED
        BY <1>8, <1>9, Induct
    <2> QED
      BY <1>3, <2>1
  <1>11. PICK a, b : a = Collapse(f) /\ b = Collapse(g)
    OBVIOUS
  <1>12. a = o[n] /\ b = u[Len(g)] /\ a \in Seq(T) /\ b \in Seq(T)
    <2>1. n \in 0 .. n /\ Len(g) \in 0 .. Len(g)
      BY <1>3, <1>5
    <2> QED
      BY <1>1, <1>6, <1>7, <1>11, <2>1 DEF Collapses
  <1>13. Agree(f, a, b, n, T)
    BY <1>3, <1>10, <1>12 DEF InStep
  <1>14. Depth(f, n) = 0
    BY <1>1, TemplatedIs
  <1>15. PICK t : t = ":line"
    OBVIOUS
  <1>16. t \in T /\ t \notin NoSpaceBefore /\ t # Space
    <2>1. t \in T
      BY <1>15 DEF Marks
    <2> QED
      BY <1>15, <2>1, SpaceIs
  <1>17. Alike(Append(a, t), Append(b, t))
    <2>1. CASE n # 0 /\ Squeezable(f, n)
      <3>1. Pending(f, a, b, n, T)
        BY <1>13, <1>14, <2>1 DEF Agree
      <3>2. PICK x \in Seq(T) : a = Append(x, Space) /\ Alike(x, b) /\ ~Ends(x, Space) /\ Ends(x, ",")
        <4>1. ~(n < Len(f))
          BY <1>1, <1>3
        <4> QED
          BY <3>1, <4>1 DEF Pending
      <3>3. Alike(Append(Append(x, Space), t), Append(b, t))
        BY <1>12, <1>16, <3>2, AlikeSpace
      <3> QED
        BY <3>2, <3>3
    <2>2. CASE ~(n # 0 /\ Squeezable(f, n))
      <3>1. Alike(a, b)
        BY <1>13, <2>2 DEF Agree
      <3> QED
        BY <1>12, <1>16, <3>1, AlikeSpace
    <2> QED
      BY <2>1, <2>2
  <1>18. a \o <<t>> = Append(a, t) /\ b \o <<t>> = Append(b, t)
    BY <1>12, <1>16, OneAfter
  <1>19. Spaced(a \o <<t>>) = Spaced(b \o <<t>>)
    BY <1>17, <1>18 DEF Alike
  <1> QED
    BY <1>1, <1>11, <1>15, <1>19

-----------------------------------------------------------------------------
(* The frames of the list. *)

\* Every frame that is listed was normalized.
FramesInv == pc \in {"threads", "frames"} =>
    /\ pc = "threads" => list = <<>>
    /\ Len(list) <= Len(crash.frames)
    /\ \A i \in 1 .. Len(list) : list[i] = NormalizeSignature(crash.frames[i])

\* Frames are listed in their order.
LEMMA NextFrames == ASSUME ShapeOK, FramesInv, [Next]_vars PROVE FramesInv'
  <1>1. DOMAIN list = 1 .. Len(list) /\ Len(list) \in Nat /\ list \in Seq(Texts)
    BY FramesCount DEF ShapeOK
  <1>2. Len(crash.frames) \in Nat
    BY CrashesAssumption DEF ShapeOK
  <1>3. CASE NextFrame
    <2>1. pc = "frames" /\ Len(list) < Len(crash.frames) /\ crash' = crash
      BY <1>3 DEF NextFrame
    <2>2. CASE pc' = "sign"
      BY <2>2 DEF FramesInv
    <2>3. CASE /\ list' = Append(list, NormalizeSignature(crash.frames[Len(list) + 1])) /\ pc' = pc
               /\ crash.frames[Len(list) + 1].kind # "plain"
      <3>1. PICK t : t = NormalizeSignature(crash.frames[Len(list) + 1])
        OBVIOUS
      <3>2. Len(list) + 1 \in 1 .. Len(crash.frames)
        BY <1>1, <1>2, <2>1
      <3>3. t \in Texts
        BY <2>3, <3>1, <3>2 DEF Texts, Framed
      <3>4. /\ Len(list') = Len(list) + 1 /\ DOMAIN list' = 1 .. Len(list')
            /\ list'[Len(list')] = t /\ \A k \in DOMAIN list : list'[k] = list[k]
        BY <1>1, <2>3, <3>1, <3>3, Appended
      <3>5. ASSUME NEW i \in 1 .. Len(list') PROVE list'[i] = NormalizeSignature(crash.frames[i])
        <4>1. CASE i = Len(list) + 1
          BY <3>1, <3>4, <4>1
        <4>2. CASE i \in 1 .. Len(list)
          BY <1>1, <2>1, <3>4, <4>2 DEF FramesInv
        <4> QED
          BY <1>1, <3>4, <3>5, <4>1, <4>2
      <3>6. pc' = "frames" /\ Len(list') <= Len(crash.frames)
        BY <1>1, <1>2, <2>1, <2>3, <3>4
      <3> QED
        BY <2>1, <3>5, <3>6 DEF FramesInv
    <2> QED
      BY <1>3, <2>2, <2>3 DEF NextFrame
  <1>4. CASE FindThread
    <2>1. pc = "threads" /\ crash' = crash /\ list' = list /\ list = <<>>
      BY <1>4 DEF FindThread, NotSigned, FramesInv
    <2>2. pc' # "threads"
      BY <1>4, CrashesAssumption DEF FindThread, ShapeOK
    <2> QED
      BY <2>1, <2>2 DEF FramesInv
  <1>5. CASE EndFrames
    <2>1. pc' = "sign"
      BY <1>5 DEF EndFrames
    <2> QED
      BY <2>1 DEF FramesInv
  <1>6. CASE Skip \/ Choose
    <2>1. pc = "sign" /\ pc' \in {"sign", "join"}
      BY <1>6 DEF Skip, Choose
    <2> QED
      BY <2>1 DEF FramesInv
  <1>7. CASE EndList \/ Join
    <2>1. pc' \in {"join", "done"}
      BY <1>7 DEF EndList, Join
    <2> QED
      BY <2>1 DEF FramesInv
  <1>8. CASE UNCHANGED vars
    BY <1>8 DEF vars, FramesInv
  <1> QED
    BY <1>3, <1>4, <1>5, <1>6, <1>7, <1>8 DEF Next

\* No frame is listed at first.
LEMMA InitFrames == ASSUME Init PROVE ShapeOK /\ FramesInv
  <1>1. ShapeOK /\ Len(list) = 0 /\ list = <<>>
    BY InitShape DEF Init
  <1>2. Len(crash.frames) \in Nat
    BY <1>1, CrashesAssumption DEF ShapeOK
  <1> QED
    BY <1>1, <1>2 DEF FramesInv

\* The tokens of a text, and those that normalizing adds.
Tokens(f) == ToSet(f) \cup Marks \cup Spacing

\* The function whose frame was normalized last is text of tokens.
LEMMA FunctionIsText ==
  ASSUME ShapeOK, FramesInv, NEW i \in Functions
  PROVE  /\ Text(i) \in Seq(Tokens(Text(i)))
         /\ list[i] = Spaced(Collapse(Text(i)) \o <<":line">>)
  <1>1. /\ i \in 1 .. Len(list) /\ pc = "frames" /\ crash.frames[i].kind = "function"
    BY FramesCount DEF Functions
  <1>2. list[i] = NormalizeSignature(crash.frames[i])
    BY <1>1 DEF FramesInv
  <1>3. list[i] = Spaced(Collapse(Text(i)) \o <<":line">>)
    BY <1>1, <1>2, Zenon DEF NormalizeSignature, Text
  <1>4. crash \in Crashes /\ Len(crash.frames) \in Nat /\ Len(list) \in Nat
    BY CrashesAssumption, FramesCount DEF ShapeOK
  <1>5. i \in 1 .. Len(crash.frames)
    BY <1>1, <1>4 DEF FramesInv
  <1>6. Text(i) \in Seq(ToSet(Text(i)))
    BY <1>1, <1>4, <1>5, FunctionsAssumption DEF Text
  <1>7. ToSet(Text(i)) \subseteq Tokens(Text(i))
    BY DEF Tokens
  <1> QED
    BY <1>3, <1>6, <1>7

\* Instances of one template are one signature: a function whose brackets match keeps what is
\* outside of them, whatever its tokens and however deep its brackets.
THEOREM SignaturesCollapsedIsOutside == Spec => []CollapsedIsOutside
  <1>1. Init => ShapeOK /\ FramesInv
    BY InitFrames
  <1>2. ShapeOK /\ FramesInv /\ [Next]_vars => ShapeOK' /\ FramesInv'
    BY NextShape, NextFrames
  <1>3. ShapeOK /\ FramesInv => CollapsedIsOutside
    <2> SUFFICES ASSUME ShapeOK, FramesInv, NEW i \in Functions, Templated(Text(i))
                 PROVE  list[i] = Spaced(Outside(Text(i)) \o <<":line">>)
      BY DEF CollapsedIsOutside
    <2>1. PICK f : f = Text(i)
      OBVIOUS
    <2>2. PICK T : T = Tokens(f)
      OBVIOUS
    <2>3. f \in Seq(T) /\ list[i] = Spaced(Collapse(f) \o <<":line">>)
      BY <2>1, <2>2, FunctionIsText
    <2>4. Marks \subseteq T
      BY <2>2 DEF Tokens
    <2>5. Templated(f)
      BY <2>1
    <2>6. Collapse(f) = Outside(f)
      BY <2>3, <2>4, <2>5, CollapseIsOutside
    <2> QED
      BY <2>1, <2>3, <2>6
  <1> QED
    BY <1>1, <1>2, <1>3, PTL DEF Spec

\* Two spellings of one function, with and without the spaces around its commas and before
\* its pointers, are one signature, as long as its brackets match and its spaces are single.
THEOREM SignaturesSpellingsAgree == Spec => []SpellingsAgree
  <1>1. Init => ShapeOK /\ FramesInv
    BY InitFrames
  <1>2. ShapeOK /\ FramesInv /\ [Next]_vars => ShapeOK' /\ FramesInv'
    BY NextShape, NextFrames
  <1>3. ShapeOK /\ FramesInv => SpellingsAgree
    <2>1. ASSUME ShapeOK, FramesInv, NEW i \in Functions, Templated(Text(i)), SingleSpaced(Text(i))
          PROVE  list[i] = NormalizeSignature([kind |-> "function", text |-> Squeezed(Text(i))])
      <3>1. PICK f : f = Text(i)
        OBVIOUS
      <3>2. PICK T : T = Tokens(f)
        OBVIOUS
      <3>3. f \in Seq(T) /\ list[i] = Spaced(Collapse(f) \o <<":line">>)
        BY <2>1, <3>1, <3>2, FunctionIsText
      <3>4. Marks \subseteq T /\ Spacing \subseteq T
        BY <3>2 DEF Tokens
      <3>5. Templated(f) /\ SingleSpaced(f)
        BY <2>1, <3>1
      <3>6. Named(T)
        <4>1. "name omitted" \notin Marks \cup Spacing
          BY Zenon DEF Marks, Spacing
        <4>2. "name omitted" \notin ToSet(f)
          BY <3>5, Zenon DEF Templated
        <4> QED
          BY <3>2, <4>1, <4>2, Zenon DEF Named, Tokens
      <3>7. Spaced(Collapse(f) \o <<":line">>) = Spaced(Collapse(Squeezed(f)) \o <<":line">>)
        BY <3>3, <3>4, <3>5, <3>6, SqueezedAgrees
      <3>8. NormalizeSignature([kind |-> "function", text |-> Squeezed(f)]) = Spaced(Collapse(Squeezed(f)) \o <<":line">>)
        BY Zenon DEF NormalizeSignature
      <3> QED
        BY <3>1, <3>3, <3>7, <3>8
    <2>2. ASSUME NEW f, \A j \in 1 .. Len(f) - 1 : f[j] # " " \/ f[j + 1] # " " PROVE SingleSpaced(f)
      BY <2>2, Zenon DEF SingleSpaced, Space
    <2> QED
      BY <2>1, <2>2, Zenon DEF SpellingsAgree
  <1> QED
    BY <1>1, <1>2, <1>3, PTL DEF Spec
=============================================================================
