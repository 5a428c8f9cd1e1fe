--------------------------- MODULE ExecArbitrary ---------------------------
(***************************************************************************)
(* QlOsUtils.exec_arbitrary (src/qiling/os/utils.py 196-214): from inside  *)
(* an API hook, make the API return into guest code at start instead of    *)
(* into its caller, and when that code reaches end, return to the caller:  *)
(* the return address on the stack is read and overwritten with start, and *)
(* a one-shot address hook at end restores sp (popping the return slot)    *)
(* and pc.                                                                 *)
(*                                                                         *)
(* The guest is the environment: it runs code, and calls APIs (pushing a   *)
(* return address) from its own code or from redirected code.  An API      *)
(* returns as a cdecl `ret`: pc from the stack slot at sp, then pop it.    *)
(* The pointer size is 1.  `calls` and the hooks' `call` and `expect`      *)
(* fields are history: the API calls whose caller has not been returned to, *)
(* and where each restore should go.                                       *)
(***************************************************************************)
EXTENDS Integers, Sequences, SequencesExt

CONSTANTS
    Code,       \* addresses of guest code, used as start and end
    RetAddrs,   \* return addresses the guest's API calls push
    StackTop,   \* initial sp; the stack grows down
    MaxDepth,   \* most API calls in progress at once
    MaxExec,    \* most exec_arbitrary calls in a behaviour
    MaxCalls    \* most API calls in a behaviour

VARIABLES pc, sp, stack, phase, hooks, calls, execs, ncalls

vars == <<pc, sp, stack, phase, hooks, calls, execs, ncalls>>

Slots == (StackTop - MaxDepth)..StackTop
Values == Code \cup RetAddrs

(* The pending hooks of the API call with id c, in registration order.   *)
HooksOf(hs, c) == SelectSeq(hs, LAMBDA h : h.call = c)

Init ==
    /\ pc \in Code /\ sp = StackTop /\ stack = [a \in Slots |-> CHOOSE v \in Values : TRUE]
    /\ phase = "guest" /\ hooks = <<>> /\ calls = <<>> /\ execs = 0 /\ ncalls = 0

(* No hook is registered at the current pc.                               *)
NoHookHere == \A i \in DOMAIN hooks : hooks[i].at # pc

(* The guest executes an instruction.                                     *)
GuestStep(next) ==
    /\ phase = "guest" /\ NoHookHere
    /\ pc' = next
    /\ UNCHANGED <<sp, stack, phase, hooks, calls, execs, ncalls>>

(* The guest calls a hooked API, pushing its return address r.           *)
GuestCallsApi(r) ==
    /\ phase = "guest" /\ NoHookHere /\ Len(calls) < MaxDepth /\ ncalls < MaxCalls
    /\ sp' = sp - 1 /\ stack' = [stack EXCEPT ![sp - 1] = r]
    /\ calls' = Append(calls, [id |-> ncalls, ret |-> r, sp |-> sp])
    /\ ncalls' = ncalls + 1
    /\ phase' = "api"
    /\ UNCHANGED <<pc, hooks, execs>>

(* Mutant: the return address is read after start was written over it. *)
ExecArbitraryWriteFirst(start, end) ==
    /\ phase = "api" /\ execs < MaxExec
    /\ LET c == Last(calls) IN
       hooks' = Append(hooks, [at |-> end, old_sp |-> sp, ret |-> start, call |-> c.id,
                   expect |-> IF HooksOf(hooks, c.id) = <<>> THEN c.ret
                              ELSE Last(HooksOf(hooks, c.id)).start,
                   start |-> start])
    /\ stack' = [stack EXCEPT ![sp] = start]
    /\ execs' = execs + 1
    /\ UNCHANGED <<pc, sp, phase, calls, ncalls>>

(* exec_arbitrary(start, end), called by the API's hook: old_sp = sp,    *)
(* ret = stack_read(0), hook_address(restore, end), stack_write(0, start).*)
ExecArbitrary(start, end) ==
    /\ phase = "api" /\ execs < MaxExec
    /\ LET c == Last(calls) IN
       hooks' = Append(hooks, [at |-> end, old_sp |-> sp, ret |-> stack[sp], call |-> c.id,
                   expect |-> IF HooksOf(hooks, c.id) = <<>> THEN c.ret
                              ELSE Last(HooksOf(hooks, c.id)).start,
                   start |-> start])
    /\ stack' = [stack EXCEPT ![sp] = start]
    /\ execs' = execs + 1
    /\ UNCHANGED <<pc, sp, phase, calls, ncalls>>

(* The hooked API returns: pc from the top slot, which is popped.  The   *)
(* caller is back unless its return was redirected.                      *)
ApiReturn ==
    /\ phase = "api"
    /\ pc' = stack[sp] /\ sp' = sp + 1
    /\ calls' = IF HooksOf(hooks, Last(calls).id) = <<>> THEN Front(calls) ELSE calls
    /\ phase' = "guest"
    /\ UNCHANGED <<stack, hooks, execs, ncalls>>

(* Mutant: restore puts sp back to old_sp, leaving the return slot.      *)
RestoreNoPop(i) ==
    /\ sp' = hooks[i].old_sp
    /\ pc' = hooks[i].ret
    /\ hooks' = RemoveAt(hooks, i)

(* restore: sp = old_sp + pointersize, pc = ret, hret.remove().          *)
Restore(i) ==
    /\ sp' = hooks[i].old_sp + 1
    /\ pc' = hooks[i].ret
    /\ hooks' = RemoveAt(hooks, i)

(* The pc reaches an address with a hook: the earliest one fires.  When  *)
(* it was the API call's last pending hook, the caller is back.          *)
HookFires ==
    /\ phase = "guest" /\ ~NoHookHere
    /\ LET i == CHOOSE j \in DOMAIN hooks : hooks[j].at = pc /\ \A k \in 1..(j - 1) : hooks[k].at # pc
           c == hooks[i].call
       IN /\ Restore(i)
          /\ calls' = IF Len(HooksOf(hooks, c)) = 1
                      THEN SelectSeq(calls, LAMBDA x : x.id # c) ELSE calls
    /\ UNCHANGED <<stack, phase, execs, ncalls>>

Next ==
    \/ \E n \in Code : GuestStep(n)
    \/ \E r \in RetAddrs : GuestCallsApi(r)
    \/ \E s, e \in Code : ExecArbitrary(s, e)
    \/ ApiReturn
    \/ HookFires

Spec == Init /\ [][Next]_vars
-----------------------------------------------------------------------------
TypeOK ==
    /\ pc \in Values /\ sp \in Slots /\ stack \in [Slots -> Values]
    /\ phase \in {"guest", "api"} /\ execs \in 0..MaxExec
    /\ Len(calls) <= MaxDepth /\ Len(hooks) <= MaxExec /\ ncalls \in 0..MaxCalls

(* Every pending restore will put the caller's frame back: its old_sp    *)
(* pops exactly the API's return slot, and its ret is where the chain     *)
(* continues (the caller's return address, or the start of the redirect  *)
(* registered before it in the same API call).                            *)
CapturedFrameRight ==
    \A i \in DOMAIN hooks :
        \A j \in DOMAIN calls : calls[j].id = hooks[i].call =>
            /\ hooks[i].old_sp + 1 = calls[j].sp
            /\ hooks[i].ret = hooks[i].expect
=============================================================================
