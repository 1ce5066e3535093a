------------------------------ MODULE FocusProofs ------------------------------
(***************************************************************************)
(* The safety properties of Focus.tla for every set of outputs, with their *)
(* proofs: what the compositors answer is arbitrary at every moment.       *)
(***************************************************************************)
EXTENDS Focus, SequenceTheorems, TLAPS

(* The first k - 1 asked are behind the call, the others to come; each of  *)
(* those behind it was without a focused output when it was asked, and so  *)
(* was every compositor that is without one now.                           *)
BehindCall(k) ==
    /\ rest = SubSeq(Asked, k, Len(Asked))
    /\ \A i \in 1 .. k - 1 : Asked[i] \in wavered

CallInv ==
    rest # None =>
        /\ \E k \in 1 .. Len(Asked) + 1 : BehindCall(k)
        /\ Wavering \subseteq wavered
        /\ result = NoAnswer

Results ==
    {NoAnswer, [by |-> "Sway", output |-> "empty"]} \cup [by : Compositor, output : Outputs]

Inv ==
    /\ environment \subseteq Compositor /\ answers \in [Compositor -> Answers]
    /\ wavered \subseteq Compositor /\ result \in Results
    /\ CallInv /\ AnswerIsTheSessions

-----------------------------------------------------------------------------
(* Sequences                                                               *)

(* What is left of a sequence from its k-th element on.                    *)
LEMMA RestOf ==
    ASSUME NEW S, NEW s \in Seq(S), NEW k \in 1 .. Len(s) + 1
    PROVE  LET r == SubSeq(s, k, Len(s))
           IN  /\ r \in Seq(S)
               /\ Len(r) = Len(s) - k + 1
               /\ r # <<>> => k \in 1 .. Len(s)
               /\ r = <<>> => k = Len(s) + 1
               /\ r # <<>> => Head(r) = s[k] /\ Tail(r) = SubSeq(s, k + 1, Len(s))
<1> DEFINE n == Len(s)
           r == SubSeq(s, k, n)
           t == SubSeq(s, k + 1, n)
<1>1. n \in Nat /\ \A i \in 1 .. n : s[i] \in S
  BY ElementOfSeq
<1>2. /\ r \in Seq(S) /\ Len(r) = n - k + 1
      /\ \A i \in 1 .. n - k + 1 : r[i] = s[k + i - 1]
  <2>1. \A i \in k .. n : s[i] \in S
    BY <1>1
  <2> QED
    BY <1>1, <2>1, SubSeqProperties
<1>3. k <= n => /\ t \in Seq(S) /\ Len(t) = n - k
                /\ \A i \in 1 .. n - k : t[i] = s[k + i]
  <2>1. \A i \in k + 1 .. n : s[i] \in S
    BY <1>1
  <2>2. /\ t \in Seq(S) /\ Len(t) = IF k + 1 <= n THEN n - (k + 1) + 1 ELSE 0
        /\ \A i \in 1 .. n - (k + 1) + 1 : t[i] = s[k + 1 + i - 1]
    BY <1>1, <2>1, SubSeqProperties
  <2> QED
    BY <1>1, <2>2
<1> HIDE DEF r, t, n
<1>4. (r # <<>> => k \in 1 .. n) /\ (r = <<>> => k = n + 1)
  BY <1>1, <1>2, EmptySeq DEF n
<1>5. ASSUME r # <<>>
      PROVE  Head(r) = s[k] /\ Tail(r) = t
  <2>1. /\ Len(Tail(r)) = Len(r) - 1 /\ Tail(r) \in Seq(S)
        /\ \A i \in 1 .. Len(Tail(r)) : Tail(r)[i] = r[i + 1]
    BY <1>2, <1>5, HeadTailProperties
  <2>2. \A i \in 1 .. Len(t) : Tail(r)[i] = t[i]
    BY <1>1, <1>2, <1>3, <1>4, <1>5, <2>1
  <2>3. Tail(r) = t
    BY <1>1, <1>2, <1>3, <1>4, <1>5, <2>1, <2>2, SeqEqual
  <2>4. Head(r) = r[1]
    BY <1>2, <1>5
  <2> QED
    BY <1>1, <1>2, <1>4, <1>5, <2>3, <2>4
<1> QED
  BY <1>2, <1>4, <1>5 DEF r, t, n

(* It is a suffix.                                                         *)
LEMMA RestIsSuffix ==
    ASSUME NEW S, NEW s \in Seq(S), NEW k \in 1 .. Len(s) + 1
    PROVE  IsSuffix(SubSeq(s, k, Len(s)), s)
<1> DEFINE n == Len(s)
           r == SubSeq(s, k, n)
           m == n - k + 1
<1>1. n \in Nat /\ m \in Nat /\ m <= n /\ \A i \in 1 .. n : s[i] \in S
  BY ElementOfSeq
<1>2. r \in Seq(S) /\ Len(r) = m /\ \A i \in 1 .. m : r[i] = s[k + i - 1]
  <2>1. \A i \in k .. n : s[i] \in S
    BY <1>1
  <2> QED
    BY <1>1, <2>1, SubSeqProperties
<1> HIDE DEF r
<1>3. ASSUME NEW q \in Seq(S)
      PROVE  /\ Reverse(q) \in Seq(S) /\ Len(Reverse(q)) = Len(q)
             /\ \A i \in 1 .. Len(q) : Reverse(q)[i] = q[Len(q) - i + 1]
  <2>1. Len(q) \in Nat /\ \A i \in 1 .. Len(q) : q[Len(q) - i + 1] \in S
    BY ElementOfSeq
  <2>2. Reverse(q) = [i \in 1 .. Len(q) |-> q[Len(q) - i + 1]]
    BY DEF Reverse
  <2> QED
    BY <2>1, <2>2
<1>4. ASSUME NEW i \in 1 .. m
      PROVE  Reverse(r)[i] = Reverse(s)[i]
  <2>1. m - i + 1 \in 1 .. m /\ k + (m - i + 1) - 1 = n - i + 1 /\ i \in 1 .. n
    BY <1>1
  <2>2. r[m - i + 1] = s[n - i + 1]
    BY <1>2, <2>1
  <2>3. Reverse(r)[i] = r[m - i + 1]
    BY <1>2, <1>3
  <2>4. Reverse(s)[i] = s[n - i + 1]
    BY <1>3, <2>1
  <2> QED
    BY <2>2, <2>3, <2>4
<1> DEFINE a == SubSeq(Reverse(r), 1, m)
           b == SubSeq(Reverse(s), 1, m)
<1>5. /\ a \in Seq(S) /\ Len(a) = m /\ \A i \in 1 .. m : a[i] = Reverse(r)[i]
      /\ b \in Seq(S) /\ Len(b) = m /\ \A i \in 1 .. m : b[i] = Reverse(s)[i]
  <2>1. \A i \in 1 .. m : Reverse(r)[i] \in S /\ Reverse(s)[i] \in S
    BY <1>1, <1>3, <1>4, ElementOfSeq
  <2> QED
    BY <1>1, <2>1, SubSeqProperties
<1> HIDE DEF a, b, m
<1>6. a = b
  BY <1>4, <1>5, SeqEqual
<1>7. Len(Reverse(r)) = m /\ Len(Reverse(s)) = n
  BY <1>2, <1>3
<1>8. IsPrefix(Reverse(r), Reverse(s))
  BY <1>1, <1>6, <1>7 DEF IsPrefix, a, b, m
<1> QED
  BY <1>8 DEF IsSuffix, r

-----------------------------------------------------------------------------
(* Who is asked                                                            *)

(* The chain has each compositor once.                                     *)
LEMMA ChainIs ==
    /\ Chain \in Seq(Compositor) /\ Len(Chain) = 4 /\ DOMAIN Chain = 1 .. 4
    /\ \A i, j \in 1 .. 4 : Chain[i] = Chain[j] => i = j
    /\ "Sway" \in Compositor
<1>1. /\ Len(Chain) = 4 /\ DOMAIN Chain = 1 .. 4
      /\ Chain[1] = "Sway" /\ Chain[2] = "Hyprland" /\ Chain[3] = "Niri" /\ Chain[4] = "Kwin"
  BY DEF Chain
<1>2. \A i \in 1 .. 4 : Chain[i] \in Compositor
  BY <1>1 DEF Compositor, ToSet
<1>3. Chain \in Seq(Compositor)
  <2>1. /\ "Sway" \in Compositor /\ "Hyprland" \in Compositor
        /\ "Niri" \in Compositor /\ "Kwin" \in Compositor
    BY <1>1, <1>2
  <2> QED
    BY <2>1 DEF Chain
<1>4. \A i, j \in 1 .. 4 : Chain[i] = Chain[j] => i = j
  BY <1>1
<1> QED
  BY <1>1, <1>2, <1>3, <1>4

(* The environment names one compositor, the first of the chain that it    *)
(* has a variable of, or none; detect_compositor finds it.                 *)
LEMMA DetectedIs ==
    ASSUME environment \subseteq Compositor, environment # {}
    PROVE  detect_compositor \in Compositor
<1> DEFINE set == {i \in DOMAIN Chain : Chain[i] \in environment}
<1>1. set \subseteq 1 .. 4 /\ set # {}
  BY ChainIs DEF Compositor, ToSet
<1>2. \E i \in set : \A j \in set : i <= j
  BY <1>1
<1>3. Min(set) \in set
  BY <1>2 DEF Min
<1> HIDE DEF set
<1>4. Chain[Min(set)] \in Compositor
  BY <1>1, <1>3, ChainIs, ElementOfSeq
<1>5. detect_compositor = Chain[Min(set)]
  BY DEF detect_compositor, set
<1> QED
  BY <1>4, <1>5

(* It alone is asked, or the whole chain.                                  *)
LEMMA AskedIs ==
    ASSUME environment \subseteq Compositor
    PROVE  /\ Asked \in Seq(Compositor) /\ Len(Asked) \in Nat
           /\ environment = {} => Asked = Chain
           /\ environment # {} => Asked = <<detect_compositor>>
           /\ ToSet(Asked) = {Asked[i] : i \in 1 .. Len(Asked)}
<1>1. environment = {} => Asked = Chain
  BY DEF Asked, detect_compositor
<1>2. environment # {} => Asked = <<detect_compositor>> /\ detect_compositor \in Compositor
  BY DetectedIs, NoneAssumption DEF Asked
<1>3. Asked \in Seq(Compositor)
  <2>1. CASE environment = {}
    BY <1>1, <2>1, ChainIs
  <2>2. CASE environment # {}
    <3>1. \A c \in Compositor : <<c>> \in Seq(Compositor)
      OBVIOUS
    <3> QED
      BY <1>2, <2>2, <3>1
  <2> QED
    BY <2>1, <2>2
<1>4. DOMAIN Asked = 1 .. Len(Asked) /\ Len(Asked) \in Nat
  BY <1>3
<1> QED
  BY <1>1, <1>2, <1>3, <1>4 DEF ToSet

(* A compositor that is not accepted has no focused output, and one that   *)
(* is accepted has one, or is Sway.                                        *)
LEMMA AcceptedIs ==
    ASSUME NEW c \in Compositor, answers \in [Compositor -> Answers]
    PROVE  /\ ~Accepted(c, answers[c]) => c \in Wavering
           /\ Accepted(c, answers[c]) => [by |-> c, output |-> answers[c]] \in Results
BY DEF Accepted, Wavering, Results

-----------------------------------------------------------------------------
(* The invariant                                                           *)

(* A call begins with everybody it asks before it.                         *)
LEMMA CallStarts ==
    ASSUME Inv, focused_output
    PROVE  CallInv' /\ AnswerIsTheSessions'
<1>1. rest' = Asked /\ result' = NoAnswer /\ wavered' = Wavering
      /\ UNCHANGED <<environment, answers>>
  BY DEF focused_output
<1>2. Asked' = Asked /\ Wavering' = Wavering
  BY <1>1 DEF Asked, detect_compositor, Wavering
<1>3. Asked \in Seq(Compositor) /\ Len(Asked) \in Nat
  BY AskedIs DEF Inv
<1>4. Asked = SubSeq(Asked, 1, Len(Asked))
  <2>1. /\ SubSeq(Asked, 1, Len(Asked)) \in Seq(Compositor)
        /\ Len(SubSeq(Asked, 1, Len(Asked))) = Len(Asked)
        /\ \A i \in 1 .. Len(Asked) : SubSeq(Asked, 1, Len(Asked))[i] = Asked[i]
    <3>1. \A i \in 1 .. Len(Asked) : Asked[i] \in Compositor
      BY <1>3, ElementOfSeq
    <3> QED
      BY <1>3, <3>1, SubSeqProperties
  <2> QED
    BY <1>3, <2>1, SeqEqual
<1>5. BehindCall(1)'
  BY <1>1, <1>2, <1>4 DEF BehindCall
<1>6. 1 \in 1 .. Len(Asked') + 1
  BY <1>2, <1>3
<1>7. AnswerIsTheSessions'
  BY <1>1 DEF AnswerIsTheSessions, NoAnswer
<1> QED
  BY <1>1, <1>2, <1>5, <1>6, <1>7 DEF CallInv

(* One that is asked either ends the call with its answer or was without a *)
(* focused output, and the call is past it.                                *)
LEMMA AskMovesOn ==
    ASSUME Inv, Ask
    PROVE  /\ CallInv' /\ AnswerIsTheSessions'
           /\ result' \in Results
<1> DEFINE c == Head(rest)
<1>1. rest # None /\ rest # <<>> /\ UNCHANGED <<environment, answers, wavered>>
  BY DEF Ask
<1>2. Asked' = Asked /\ Wavering' = Wavering /\ detect_compositor' = detect_compositor
  BY <1>1 DEF Asked, detect_compositor, Wavering
<1>3. /\ Asked \in Seq(Compositor) /\ Len(Asked) \in Nat
      /\ environment = {} => Asked = Chain
      /\ environment # {} => Asked = <<detect_compositor>>
  BY AskedIs DEF Inv
<1>4. PICK k \in 1 .. Len(Asked) + 1 :
        /\ rest = SubSeq(Asked, k, Len(Asked))
        /\ \A i \in 1 .. k - 1 : Asked[i] \in wavered
  BY <1>1 DEF Inv, CallInv, BehindCall
<1>5. /\ k \in 1 .. Len(Asked) /\ c = Asked[k] /\ c \in Compositor
      /\ Tail(rest) = SubSeq(Asked, k + 1, Len(Asked))
  BY <1>1, <1>3, <1>4, RestOf, ElementOfSeq
<1> HIDE DEF c
<1>6. CASE Accepted(c, answers[c])
  <2>1. rest' = None /\ result' = [by |-> c, output |-> answers[c]]
    BY <1>1, <1>6 DEF Ask, c
  <2>2. result' \in Results
    BY <1>5, <1>6, <2>1, AcceptedIs DEF Inv
  <2>3. c \notin wavered => answers[c] \in Outputs
    BY <1>1, <1>5 DEF Inv, CallInv, Wavering
  <2>4. CASE environment # {}
    <3>1. c = detect_compositor
      BY <1>3, <1>5, <2>4
    <3> QED
      BY <1>1, <1>2, <2>1, <2>2, <2>3, <2>4, <3>1 DEF CallInv, AnswerIsTheSessions
  <2>5. CASE environment = {}
    <3>1. c = Chain[k] /\ k \in 1 .. 4
      BY <1>3, <1>5, <2>5, ChainIs
    <3>2. \A j \in 1 .. 4 : Chain[j] = c => j = k
      BY <3>1, ChainIs
    <3>3. \A i \in 1 .. k - 1 : Chain[i] \in wavered
      BY <1>3, <1>4, <2>5
    <3>4. \A i, j \in DOMAIN Chain : Chain[j] = c /\ Chain[i] \notin wavered => j <= i
      BY <3>1, <3>2, <3>3, ChainIs
    <3> QED
      BY <1>1, <2>1, <2>2, <2>3, <2>5, <3>4 DEF CallInv, AnswerIsTheSessions
  <2> QED
    BY <2>4, <2>5
<1>7. CASE ~Accepted(c, answers[c])
  <2>1. rest' = Tail(rest) /\ result' = result
    BY <1>1, <1>7 DEF Ask, c
  <2>2. Asked[k] \in wavered
    BY <1>1, <1>5, <1>7, AcceptedIs DEF Inv, CallInv
  <2>3. \A i \in 1 .. (k + 1) - 1 : Asked[i] \in wavered
    BY <1>4, <1>5, <2>2
  <2>4. BehindCall(k + 1)'
    BY <1>1, <1>2, <1>5, <2>1, <2>3 DEF BehindCall
  <2>5. k + 1 \in 1 .. Len(Asked') + 1
    BY <1>2, <1>3, <1>5
  <2>6. CallInv'
    BY <1>1, <1>2, <2>1, <2>4, <2>5 DEF CallInv, Inv
  <2>7. AnswerIsTheSessions'
    BY <1>1, <1>2, <2>1 DEF Inv, AnswerIsTheSessions
  <2> QED
    BY <2>1, <2>6, <2>7 DEF Inv
<1> QED
  BY <1>6, <1>7

(* A compositor that loses the focus during a call is remembered.          *)
LEMMA ChangeIsNoticed ==
    ASSUME Inv, NEW c \in Compositor, NEW answer \in Answers, Change(c, answer)
    PROVE  /\ answers' \in [Compositor -> Answers] /\ wavered' \subseteq Compositor
           /\ CallInv' /\ AnswerIsTheSessions'
<1>1. /\ answers' = [answers EXCEPT ![c] = answer] /\ UNCHANGED <<environment, rest, result>>
      /\ wavered' = IF rest = None THEN wavered ELSE wavered \cup Wavering'
  BY DEF Change
<1>2. Asked' = Asked /\ detect_compositor' = detect_compositor /\ Wavering' \subseteq Compositor
  BY <1>1 DEF Asked, detect_compositor, Wavering
<1>3. wavered \subseteq wavered' /\ wavered' \subseteq Compositor
  BY <1>1, <1>2 DEF Inv
<1>4. answers' \in [Compositor -> Answers]
  BY <1>1 DEF Inv
<1>5. AnswerIsTheSessions'
  BY <1>1, <1>2, <1>3 DEF Inv, AnswerIsTheSessions
<1>6. ASSUME rest' # None
      PROVE  /\ \E k \in 1 .. Len(Asked') + 1 : BehindCall(k)'
             /\ Wavering' \subseteq wavered' /\ result' = NoAnswer
  <2>1. PICK k \in 1 .. Len(Asked) + 1 : BehindCall(k)
    BY <1>1, <1>6 DEF Inv, CallInv
  <2>2. BehindCall(k)'
    BY <1>1, <1>2, <1>3, <2>1 DEF BehindCall
  <2> QED
    BY <1>1, <1>2, <1>6, <2>2 DEF Inv, CallInv
<1>7. CallInv'
  BY <1>6 DEF CallInv
<1> QED
  BY <1>3, <1>4, <1>5, <1>7

(* Every step keeps the invariant.                                         *)
LEMMA InvKept ==
    ASSUME Inv, [Next]_vars
    PROVE  Inv'
<1>1. CASE focused_output
  <2>1. UNCHANGED <<environment, answers>> /\ result' = NoAnswer /\ wavered' \subseteq Compositor
    BY <1>1 DEF focused_output, Wavering
  <2> QED
    BY <1>1, <2>1, CallStarts DEF Inv, Results
<1>2. CASE Ask
  <2>1. UNCHANGED <<environment, answers, wavered>>
    BY <1>2 DEF Ask
  <2> QED
    BY <1>2, <2>1, AskMovesOn DEF Inv
<1>3. CASE GiveUp
  <2>1. UNCHANGED <<environment, answers, result, wavered>> /\ rest' = None
    BY <1>3 DEF GiveUp
  <2> QED
    BY <2>1 DEF Inv, CallInv, AnswerIsTheSessions, detect_compositor, Results
<1>4. ASSUME NEW c \in Compositor, NEW answer \in Answers, Change(c, answer)
      PROVE  Inv'
  <2>1. UNCHANGED <<environment, result>>
    BY <1>4 DEF Change
  <2> QED
    BY <1>4, <2>1, ChangeIsNoticed DEF Inv, Results
<1>5. CASE UNCHANGED vars
  BY <1>5 DEF vars, Inv, CallInv, BehindCall, AnswerIsTheSessions, Asked, detect_compositor,
     Wavering, Results
<1> QED
  BY <1>1, <1>2, <1>3, <1>4, <1>5 DEF Next

(***************************************************************************)
(* The strengthened invariant of a call holds in every reachable state.    *)
(***************************************************************************)
THEOREM Invariance == Spec => []Inv
<1>1. Init => Inv
  BY DEF Init, Inv, CallInv, AnswerIsTheSessions, NoAnswer, Results
<1>2. Inv /\ [Next]_vars => Inv'
  BY InvKept
<1> QED
  BY <1>1, <1>2, PTL DEF Spec

(***************************************************************************)
(* TypeOK: what is left to ask is always the end of what the call began    *)
(* with, and only Sway's answer can be without a name.                     *)
(***************************************************************************)
THEOREM FocusTypes == Spec => []TypeOK
<1>1. Inv => TypeOK
  <2> SUFFICES ASSUME Inv PROVE TypeOK
    OBVIOUS
  <2>1. Asked \in Seq(Compositor)
    BY AskedIs DEF Inv
  <2>2. ASSUME rest # None
        PROVE  IsSuffix(rest, Asked)
    <3>1. PICK k \in 1 .. Len(Asked) + 1 : rest = SubSeq(Asked, k, Len(Asked))
      BY <2>2 DEF Inv, CallInv, BehindCall
    <3> QED
      BY <2>1, <3>1, RestIsSuffix
  <2> QED
    BY <2>2 DEF Inv, TypeOK, Results
<1> QED
  BY <1>1, Invariance, PTL

(***************************************************************************)
(* AnswerIsTheSessions: a compositor the environment names is the only one *)
(* that answers, and otherwise nobody answers past one that had a focused  *)
(* output all the time, however the answers change during the call; an     *)
(* empty name comes only from one that was without a focus in it.          *)
(***************************************************************************)
THEOREM TheSessionAnswers == Spec => []AnswerIsTheSessions
<1>1. Inv => AnswerIsTheSessions
  BY DEF Inv
<1> QED
  BY <1>1, Invariance, PTL

(***************************************************************************)
(* FailsOnlyWithoutFocus: when nobody is left to ask, each of those asked  *)
(* was without a focused output at some time of the call.                  *)
(***************************************************************************)
THEOREM FailuresAreExcused == Spec => []FailsOnlyWithoutFocus
<1>1. Inv => FailsOnlyWithoutFocus
  <2> SUFFICES ASSUME Inv, rest = <<>> PROVE ToSet(Asked) \subseteq wavered
    BY DEF FailsOnlyWithoutFocus
  <2>1. /\ Asked \in Seq(Compositor) /\ Len(Asked) \in Nat
        /\ ToSet(Asked) = {Asked[i] : i \in 1 .. Len(Asked)}
    BY AskedIs DEF Inv
  <2>2. rest # None
    BY NoneAssumption, EmptySeq
  <2>3. PICK k \in 1 .. Len(Asked) + 1 : BehindCall(k)
    BY <2>2 DEF Inv, CallInv
  <2>4. k = Len(Asked) + 1
    BY <2>1, <2>3, RestOf DEF BehindCall
  <2> QED
    BY <2>1, <2>3, <2>4 DEF BehindCall
<1> QED
  BY <1>1, Invariance, PTL

=============================================================================
