-------------------------------- MODULE Focus --------------------------------
(***************************************************************************)
(* wayfocus: which output has the focus.  The environment of the process   *)
(* names the compositor to ask; when it names none, all four are asked in  *)
(* turn.  Asking takes a subprocess or a D-Bus call, and compositors start *)
(* and stop answering, and move the focus, between one and the next.       *)
(***************************************************************************)
EXTENDS Integers, SequencesExt

CONSTANTS
    Outputs,        (* output names                                        *)
    None            (* Option::None                                        *)

(* The order of both detect_compositor and the chain of focused_output.    *)
Chain == <<"Sway", "Hyprland", "Niri", "Kwin">>
Compositor == ToSet(Chain)

ASSUME NoneAssumption == None \notin Compositor /\ None \notin Seq(Compositor)

(* What a compositor's tool may say: nothing usable (it cannot be started, *)
(* fails, is not UTF-8 or JSON), an empty name, or a name.                 *)
Answers == Outputs \cup {"fails", "empty"}

VARIABLES
    environment,    (* compositors with a variable set                     *)
    answers,        (* what each compositor's tool would say now           *)
    rest,           (* compositors still to be asked; None outside a call  *)
    result,         (* [by, output] of the last call, with None for errors *)
    wavered         (* history: those without a name at some time in it    *)

vars == <<environment, answers, rest, result, wavered>>

NoAnswer == [by |-> None, output |-> None]

Accepted_AnyName(compositor, answer) == answer # "fails"

(* Only Sway's name may be empty: the others refuse one.                   *)
Accepted(compositor, answer) ==
    answer \in Outputs \/ (compositor = "Sway" /\ answer = "empty")

Wavering == {compositor \in Compositor : answers[compositor] \notin Outputs}

(* None: Compositor::Unknown.                                              *)
detect_compositor ==
    IF environment = {} THEN None
    ELSE Chain[Min({i \in DOMAIN Chain : Chain[i] \in environment})]

Asked_FallsThrough ==
    IF detect_compositor = None THEN Chain
    ELSE <<detect_compositor>> \o SelectSeq(Chain, LAMBDA c : c # detect_compositor)

(* A detected compositor is the only one that is asked.                    *)
Asked == IF detect_compositor = None THEN Chain ELSE <<detect_compositor>>

Init ==
    /\ environment \in SUBSET Compositor
    /\ answers \in [Compositor -> Answers]
    /\ rest = None /\ result = NoAnswer /\ wavered = {}

focused_output ==
    /\ rest = None
    /\ rest' = Asked /\ result' = NoAnswer /\ wavered' = Wavering
    /\ UNCHANGED <<environment, answers>>

Ask_StopsWithoutFocus ==
    /\ rest # None /\ rest # <<>>
    /\ LET compositor == Head(rest)
       IN  IF Accepted(compositor, answers[compositor])
           THEN /\ result' = [by |-> compositor, output |-> answers[compositor]]
                /\ rest' = None
           ELSE /\ rest' = IF answers[compositor] = "fails" THEN Tail(rest) ELSE <<>>
                /\ UNCHANGED result
    /\ UNCHANGED <<environment, answers, wavered>>

(* sway, hyprland, niri and kwin::focused_output: the first to accept ends *)
(* the call, any error goes on to the next.                                *)
Ask ==
    /\ rest # None /\ rest # <<>>
    /\ LET compositor == Head(rest)
       IN  IF Accepted(compositor, answers[compositor])
           THEN /\ result' = [by |-> compositor, output |-> answers[compositor]]
                /\ rest' = None
           ELSE rest' = Tail(rest) /\ UNCHANGED result
    /\ UNCHANGED <<environment, answers, wavered>>

(* Nobody is left: the one compositor's error, or FocusError::Unsupported. *)
GiveUp ==
    /\ rest = <<>>
    /\ rest' = None
    /\ UNCHANGED <<environment, answers, result, wavered>>

(* A compositor starts, stops, or moves the focus.                         *)
Change(compositor, answer) ==
    /\ answers' = [answers EXCEPT ![compositor] = answer]
    /\ wavered' = IF rest = None THEN wavered ELSE wavered \cup Wavering'
    /\ UNCHANGED <<environment, rest, result>>

Next ==
    \/ focused_output \/ Ask \/ GiveUp
    \/ \E compositor \in Compositor, answer \in Answers : Change(compositor, answer)

Spec == Init /\ [][Next]_vars

-----------------------------------------------------------------------------
TypeOK ==
    /\ environment \subseteq Compositor /\ answers \in [Compositor -> Answers]
    /\ rest = None \/ IsSuffix(rest, Asked)
    /\ result \in {NoAnswer, [by |-> "Sway", output |-> "empty"]}
                     \cup [by : Compositor, output : Outputs]
    /\ wavered \subseteq Compositor

(***************************************************************************)
(* A compositor the environment names is never passed over for another     *)
(* one's answer, however it fails; without one, nobody that had a focused  *)
(* output all the time is passed over for one after it in the chain.  One  *)
(* before it may answer, with a focus it had for a moment or, Sway, with a *)
(* name that is empty: that ends the search like any other, but only a     *)
(* compositor that was without a focus at some time gives it.              *)
(***************************************************************************)
AnswerIsTheSessions ==
    result.by # None =>
        /\ IF environment # {} THEN result.by = detect_compositor
           ELSE \A i, j \in DOMAIN Chain :
                    Chain[j] = result.by /\ Chain[i] \notin wavered => j <= i
        /\ result.by \notin wavered => result.output \in Outputs

(***************************************************************************)
(* The call fails only if what it asks had no focused output at some time: *)
(* the detected compositor, or all four, one bad answer among them being   *)
(* no reason to stop (or_else in focused_output).                          *)
(***************************************************************************)
FailsOnlyWithoutFocus ==
    rest = <<>> => ToSet(Asked) \subseteq wavered

=============================================================================
