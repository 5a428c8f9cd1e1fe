----------------------------- MODULE McuRunLoop -----------------------------
(***************************************************************************)
(* QlOsMcu (src/qiling/os/mcu/mcu.py): the single-step run loop of the     *)
(* microcontroller OS layer.  run(count, end) executes one instruction at  *)
(* a time until stop() clears runable, the program counter equals end, or  *)
(* count steps have been taken.  The guest program (where each instruction *)
(* leaves the program counter) and the hooks that may call stop() during   *)
(* an instruction are the environment: any choice is allowed.              *)
(***************************************************************************)
EXTENDS Integers, Bitwise

CONSTANTS
    Addrs,      \* even instruction addresses the guest may reach
    Counts,     \* values passed as run(count=...), besides None
    IsARM,      \* ql.arch is a QlArchARM
    MaxRuns,    \* bound on the number of run() calls
    None        \* Python's None, a model value

ASSUME Addrs \subseteq {2 * k : k \in 0..1000} /\ Counts \subseteq Nat /\ None \notin Nat
ASSUME IsARM \in BOOLEAN /\ MaxRuns \in Nat \ {0}

VARIABLES
    pc,         \* the guest program counter, without the Thumb bit
    thumb,      \* ql.arch.thumb: 1 in Thumb state
    runable,    \* self.runable
    state,      \* "idle" (outside run) or "loop" (inside the while loop)
    count,      \* run's local count
    end,        \* run's local end
    requested,  \* history: the count argument of the current run
    endArg,     \* history: the end argument of the current run
    stopped,    \* history: stop() was called during the current run
    runs        \* number of run() calls so far

vars == <<pc, thumb, runable, state, count, end, requested, endArg, stopped, runs>>

(* ql.arch.get_pc(): on ARM the effective address carries the Thumb bit. *)
GetPc == IF IsARM THEN pc + thumb ELSE pc

(* count -= 1.  Every negative count behaves the same for the test       *)
(* count == 0, so negatives are kept as -1 to keep the state space finite. *)
Decrement(c) == IF c <= 0 THEN -1 ELSE c - 1

(* end |= ql.arch.thumb, sampled once on entry; -1 | 1 = -1.             *)
ThumbEnd(e) == IF e = -1 THEN -1 ELSE e | thumb

Init ==
    /\ pc \in Addrs
    /\ thumb \in IF IsARM THEN {0, 1} ELSE {0}
    /\ runable = TRUE
    /\ state = "idle"
    /\ count = -1
    /\ end = -1
    /\ requested = None
    /\ endArg = None
    /\ stopped = FALSE
    /\ runs = 0

(* Mutants of run: the None default of count missing; end without the   *)
(* Thumb bit.                                                             *)
RunNoCountDefault(c, e) ==
    /\ state = "idle" /\ runs < MaxRuns
    /\ runable' = TRUE /\ count' = c /\ end' = IF e = None THEN -1 ELSE e
    /\ state' = "loop" /\ requested' = c /\ endArg' = e /\ stopped' = FALSE
    /\ runs' = runs + 1 /\ UNCHANGED <<pc, thumb>>

RunNoThumb(c, e) ==
    /\ state = "idle" /\ runs < MaxRuns
    /\ runable' = TRUE /\ count' = IF c = None THEN -1 ELSE c
    /\ end' = IF e = None THEN -1 ELSE e
    /\ state' = "loop" /\ requested' = c /\ endArg' = e /\ stopped' = FALSE
    /\ runs' = runs + 1 /\ UNCHANGED <<pc, thumb>>

(* run(count, end): defaults, the Thumb bit, and entry into the loop.    *)
Run(c, e) ==
    /\ state = "idle"
    /\ runs < MaxRuns
    /\ runable' = TRUE
    /\ count' = IF c = None THEN -1 ELSE c
    /\ end' = LET e1 == IF e = None THEN -1 ELSE e
              IN IF IsARM THEN ThumbEnd(e1) ELSE e1
    /\ state' = "loop"
    /\ requested' = c
    /\ endArg' = e
    /\ stopped' = FALSE
    /\ runs' = runs + 1
    /\ UNCHANGED <<pc, thumb>>

(* step(): emu_start(pc, 0, count=1) runs one instruction, leaving the  *)
(* program counter at next, then ql.hw.step(); a hook inside either may  *)
(* call stop(), which clears runable.  Its mutant: a stop() that only    *)
(* calls emu_stop.                                                        *)
McuStepKeepsRunable(next, hookStops) ==
    /\ pc' = next
    /\ runable' = runable
    /\ stopped' = (stopped \/ hookStops)

McuStep(next, hookStops) ==
    /\ pc' = next
    /\ runable' = (runable /\ ~hookStops)
    /\ stopped' = (stopped \/ hookStops)

(* The while test of run().                                               *)
LoopTest == runable /\ GetPc # end

(* Mutant of the loop body: the count test before the decrement.        *)
StepTestBeforeDecrement(next, hookStops) ==
    /\ state = "loop" /\ LoopTest
    /\ McuStep(next, hookStops)
    /\ count' = Decrement(count)
    /\ state' = IF count = 0 THEN "idle" ELSE "loop"
    /\ UNCHANGED <<thumb, end, requested, endArg, runs>>

(* One iteration of the while loop: the loop test holds, self.step(),    *)
(* count -= 1, and the count == 0 break.                                 *)
Step(next, hookStops) ==
    /\ state = "loop" /\ LoopTest
    /\ McuStep(next, hookStops)
    /\ count' = Decrement(count)
    /\ state' = IF count' = 0 THEN "idle" ELSE "loop"
    /\ UNCHANGED <<thumb, end, requested, endArg, runs>>

(* The while test fails: stop() was called or the pc reached end.        *)
LoopExit ==
    /\ state = "loop"
    /\ ~LoopTest
    /\ state' = "idle"
    /\ UNCHANGED <<pc, thumb, runable, count, end, requested, endArg, stopped, runs>>

(* stop() called by the host between runs.                                *)
Stop ==
    /\ state = "idle"
    /\ runable' = FALSE
    /\ UNCHANGED <<pc, thumb, state, count, end, requested, endArg, stopped, runs>>

(* The host makes no further run() call.                                 *)
Terminating ==
    /\ state = "idle" /\ runs = MaxRuns
    /\ UNCHANGED vars

LoopStep == \E next \in Addrs, h \in BOOLEAN : Step(next, h)

Next ==
    \/ \E c \in Counts \cup {None}, e \in Addrs \cup {None} : Run(c, e)
    \/ LoopStep
    \/ LoopExit
    \/ Stop
    \/ Terminating

(* Fairness: the loop is host Python code, and step() runs exactly one    *)
(* instruction (emu_start with count=1) and returns; so once inside run() *)
(* the loop keeps iterating.  The host calling run() is not assumed.      *)
Spec == Init /\ [][Next]_vars /\ WF_vars(LoopStep) /\ WF_vars(LoopExit)

-----------------------------------------------------------------------------
TypeOK ==
    /\ pc \in Addrs /\ thumb \in {0, 1} /\ runable \in BOOLEAN
    /\ state \in {"idle", "loop"}
    /\ count \in Int /\ count >= -1
    /\ requested \in Counts \cup {None} /\ endArg \in Addrs \cup {None}
    /\ stopped \in BOOLEAN /\ runs \in 0..MaxRuns

(* With run(count=n), n >= 1, no more than n instructions are executed:  *)
(* the decrement and the count == 0 break of the loop body bound it.     *)
StepBound ==
    (requested \in Counts /\ requested >= 1) => count \in 0..requested

(* run() returns whenever something bounds it: a positive count, a stop()*)
(* from a hook, or the guest reaching the address passed as end (with     *)
(* the Thumb bit of the current mode).                                    *)
RunReturns ==
    (state = "loop" /\ (  (requested \in Counts /\ requested >= 1)
                       \/ stopped
                       \/ (endArg \in Addrs /\ pc = endArg)))
        ~> state = "idle"

(* After a hook has called stop(), the current run executes no further   *)
(* instruction.                                                           *)
NoStepAfterStop == [][stopped => ~LoopStep]_vars
=============================================================================
