-------------------------------- MODULE Firewall --------------------------------
(***************************************************************************)
(* Active response of the C daemon (c/src/active_response): rules of the    *)
(* kernel's INPUT chain that block addresses, for good or for a time, and   *)
(* the lockdown of the host.                                                *)
(*                                                                         *)
(* The chain outlives the daemon.  A step is a command that run_command     *)
(* runs; nothing keeps the callers of the library apart.  A command can     *)
(* fail, or be killed by a signal: run_command then takes the exit status   *)
(* of a process that has none, which is 0, and the command that has done    *)
(* nothing counts as a success.  Kernel parameters that sysctl sets one by  *)
(* one are one flag, and the rule for the loopback interface goes with the  *)
(* one for established connections.                                         *)
(***************************************************************************)
EXTENDS Naturals, Sequences, SequencesExt, FiniteSets

CONSTANTS Callers, Addresses,
          none,          (* no address                                        *)
          MaxRules,      (* bound on the length of the chain                  *)
          MaxCrashes

VARIABLES
    chain,           (* the address that a rule drops, or "established"      *)
    policy,
    hardened,        (* the parameters that restore_posture sets back are set *)
    at,              (* the command each caller runs next                    *)
    ip, timed,       (* what its block_ip was called with                    *)
    orphans,         (* sleeping shells of each address without a caller     *)
    crashes,
    raced,           (* history: two callers were about to add the address,  *)
                     (* or one was told that it has no rule when it had      *)
    permanent,       (* history: block_ip without a duration has succeeded,  *)
                     (* and unblock_ip has not been called since             *)
    undermined,      (* history: a timed block of it was under way then, or  *)
                     (* has since started a timer without looking            *)
    feigned,         (* history: it last succeeded by a command that was     *)
                     (* killed, with no rule in the chain                    *)
    kept,            (* history: a rule of it was left without a timer, and  *)
                     (* the chain has not been without one since             *)
    half_locked      (* history: a lockdown has ended half-way               *)

kernel == <<chain, policy, hardened>>
calls == <<at, ip, timed>>
history == <<raced, permanent, undermined, feigned, kept, half_locked>>
vars == <<kernel, calls, orphans, crashes, history>>

Init ==
    /\ chain = <<>> /\ policy = "ACCEPT" /\ hardened = FALSE
    /\ at = [c \in Callers |-> "idle"]
    /\ ip = [c \in Callers |-> none]
    /\ timed = [c \in Callers |-> FALSE]
    /\ orphans = [a \in Addresses |-> 0]
    /\ crashes = 0
    /\ raced = {} /\ permanent = {} /\ undermined = {} /\ feigned = {}
    /\ kept = {}
    /\ half_locked = FALSE

Blocked(a) == \E i \in DOMAIN chain : chain[i] = a
Count(a) == Cardinality({i \in DOMAIN chain : chain[i] = a})

(* Those of a that will still delete a rule. *)
Sleeping(a) == {c \in Callers : ip[c] = a /\ at[c] \in {"arm", "asleep"}}
Pending(a) == Cardinality(Sleeping(a)) + orphans[a]

Goto(c, place) == at' = [at EXCEPT ![c] = place]

(* A call returns. *)
Return(c) ==
    /\ at' = [at EXCEPT ![c] = "idle"]
    /\ ip' = [ip EXCEPT ![c] = none]
    /\ timed' = [timed EXCEPT ![c] = FALSE]

(* A block for good of a has succeeded, and left the chain as it is now. *)
Succeed(c, a) ==
    /\ permanent' = permanent \cup {a}
    /\ undermined' = IF \/ Pending(a) > 0
                        \/ \E d \in Callers \ {c} : ip[d] = a /\ timed[d] /\ at[d] = "add"
                     THEN undermined \cup {a}
                     ELSE undermined
    /\ feigned' = IF a \in ToSet(chain') THEN feigned \ {a} ELSE feigned \cup {a}

-----------------------------------------------------------------------------
(* block_ip *)

BlockIp(c, a, t) ==
    /\ at[c] = "idle"
    /\ at' = [at EXCEPT ![c] = "check"]
    /\ ip' = [ip EXCEPT ![c] = a]
    /\ timed' = [timed EXCEPT ![c] = t]
    /\ UNCHANGED <<kernel, orphans, crashes, history>>

(* Mutant of CheckFound: the call goes on to its timer. *)
CheckFoundArms(c) ==
    /\ at[c] = "check"
    /\ UNCHANGED <<kernel, orphans, crashes, raced, kept, half_locked>>
    /\ IF timed[c]
       THEN /\ Goto(c, "arm")
            /\ UNCHANGED <<ip, timed, permanent, undermined, feigned>>
       ELSE /\ Return(c)
            /\ Succeed(c, ip[c])

(* iptables -C finds a rule, or is killed while it looks for one: the call  *)
(* succeeds, without a timer.                                               *)
CheckFound(c) ==
    /\ at[c] = "check"
    /\ Return(c)
    /\ UNCHANGED <<kernel, orphans, crashes, raced, kept, half_locked>>
    /\ IF timed[c]
       THEN UNCHANGED <<permanent, undermined, feigned>>
       ELSE Succeed(c, ip[c])

AboutToAdd(a) == \E d \in Callers : ip[d] = a /\ at[d] = "add"

(* Mutant of CheckNotFound: the result of iptables -C is not looked at. *)
CheckNothing(c) ==
    /\ at[c] = "check"
    /\ Goto(c, "add")
    /\ raced' = IF AboutToAdd(ip[c]) THEN raced \cup {ip[c]} ELSE raced
    /\ UNCHANGED <<kernel, ip, timed, orphans, crashes, permanent, undermined, feigned, kept,
                   half_locked>>

CheckNotFound(c) ==
    /\ at[c] = "check"
    /\ ~Blocked(ip[c])
    /\ Goto(c, "add")
    /\ raced' = IF AboutToAdd(ip[c]) THEN raced \cup {ip[c]} ELSE raced
    /\ UNCHANGED <<kernel, ip, timed, orphans, crashes, permanent, undermined, feigned, kept,
                   half_locked>>

(* iptables fails for another reason, as when another iptables holds its    *)
(* lock: the call takes it that there is no rule.                           *)
CheckFails(c) ==
    /\ at[c] = "check"
    /\ Blocked(ip[c])
    /\ Goto(c, "add")
    /\ raced' = raced \cup {ip[c]}
    /\ undermined' = IF timed[c] THEN undermined \cup {ip[c]} ELSE undermined
    /\ UNCHANGED <<kernel, ip, timed, orphans, crashes, permanent, feigned, kept, half_locked>>

(* Mutant of Add: a call that has added its rule is done. *)
AddReturns(c) ==
    /\ at[c] = "add"
    /\ Len(chain) < MaxRules
    /\ chain' = Append(chain, ip[c])
    /\ Return(c)
    /\ IF timed[c]
       THEN UNCHANGED <<permanent, undermined, feigned, kept>>
       ELSE /\ Succeed(c, ip[c])
            /\ kept' = kept \cup {ip[c]}
    /\ UNCHANGED <<policy, hardened, orphans, crashes, raced, half_locked>>

(* iptables -A adds a rule, or is killed before it has. *)
Add(c) ==
    /\ at[c] = "add"
    /\ \/ Len(chain) < MaxRules /\ chain' = Append(chain, ip[c])
       \/ UNCHANGED chain
    /\ IF timed[c]
       THEN /\ Goto(c, "arm")
            /\ UNCHANGED <<ip, timed, permanent, undermined, feigned, kept>>
       ELSE /\ Return(c)
            /\ Succeed(c, ip[c])
            /\ kept' = IF chain' = chain THEN kept ELSE kept \cup {ip[c]}
    /\ UNCHANGED <<policy, hardened, orphans, crashes, raced, half_locked>>

(* A timer is started for the rule that is not there. *)
AddFails(c) ==
    /\ at[c] = "add"
    /\ IF timed[c]
       THEN Goto(c, "arm") /\ UNCHANGED <<ip, timed>>
       ELSE Return(c)
    /\ UNCHANGED <<kernel, orphans, crashes, history>>

(* The shell with the timer runs in the background, but it holds the other  *)
(* end of the pipe that run_command reads to its end: the call waits for it. *)
Arm(c) ==
    /\ at[c] = "arm"
    /\ Goto(c, "asleep")
    /\ UNCHANGED <<kernel, ip, timed, orphans, crashes, history>>

(* There is no shell, or it is killed before it has started another. *)
ArmFails(c) ==
    /\ at[c] = "arm"
    /\ Return(c)
    /\ kept' = IF Blocked(ip[c]) THEN kept \cup {ip[c]} ELSE kept
    /\ UNCHANGED <<kernel, orphans, crashes, raced, permanent, undermined, feigned, half_locked>>

-----------------------------------------------------------------------------
(* iptables -D: the first rule of a, if there is one. *)
Delete(a) ==
    /\ chain' = RemoveFirst(chain, a)
    /\ kept' = IF Count(a) <= 1 THEN kept \ {a} ELSE kept

(* The same command of a timer, which nobody runs again when it fails. *)
Expire(a) ==
    \/ Delete(a)
    \/ /\ Blocked(a)
       /\ kept' = kept \cup {a}
       /\ UNCHANGED chain

(* The shell wakes up and ends, and with it the call. *)
Wake(c) ==
    /\ at[c] = "asleep"
    /\ Expire(ip[c])
    /\ Return(c)
    /\ UNCHANGED <<policy, hardened, orphans, crashes, raced, permanent, undermined, feigned,
                   half_locked>>

WakeOrphan(a) ==
    /\ orphans[a] > 0
    /\ orphans' = [orphans EXCEPT ![a] = @ - 1]
    /\ Expire(a)
    /\ UNCHANGED <<policy, hardened, calls, crashes, raced, permanent, undermined, feigned,
                   half_locked>>

(* If the command fails, nothing has changed, and the caller is told; if it *)
(* is killed, the caller is told that the address is open.                  *)
UnblockIp(c, a) ==
    /\ at[c] = "idle"
    /\ Delete(a) \/ UNCHANGED <<chain, kept>>
    /\ permanent' = permanent \ {a}
    /\ undermined' = undermined \ {a}
    /\ feigned' = feigned \ {a}
    /\ UNCHANGED <<policy, hardened, calls, orphans, crashes, raced, half_locked>>

-----------------------------------------------------------------------------
(* lockdown_posture and restore_posture.  Each command may fail, and the     *)
(* next is run all the same.                                                *)

LockdownPosture(c) ==
    /\ at[c] = "idle"
    /\ Goto(c, "accept")
    /\ hardened' \in {hardened, TRUE}
    /\ policy' \in {policy, "DROP"}
    /\ UNCHANGED <<chain, ip, timed, orphans, crashes, history>>

AcceptEstablished(c) ==
    /\ at[c] = "accept"
    /\ Return(c)
    /\ Len(chain) < MaxRules
    /\ chain' = Append(chain, "established")
    /\ UNCHANGED <<policy, hardened, orphans, crashes, history>>

AcceptFails(c) ==
    /\ at[c] = "accept"
    /\ Return(c)
    /\ half_locked' = TRUE
    /\ UNCHANGED <<kernel, orphans, crashes, raced, permanent, undermined, feigned, kept>>

(* Mutant of RestorePosture: the rule that the lockdown added is deleted. *)
RestoreDeletes(c) ==
    /\ at[c] = "idle"
    /\ hardened' \in {hardened, FALSE}
    /\ chain' = RemoveFirst(chain, "established")
    /\ UNCHANGED <<policy, calls, orphans, crashes, history>>

(* The command that would open the chain again is put together and not run. *)
RestorePosture(c) ==
    /\ at[c] = "idle"
    /\ hardened' \in {hardened, FALSE}
    /\ UNCHANGED <<chain, policy, calls, orphans, crashes, history>>

(* The daemon ends; its shells go on sleeping. *)
Crash ==
    /\ crashes < MaxCrashes
    /\ crashes' = crashes + 1
    /\ orphans' = [a \in Addresses |->
                      orphans[a] + Cardinality({c \in Callers : ip[c] = a /\ at[c] = "asleep"})]
    /\ kept' = kept \cup {ip[c] : c \in {d \in Callers : at[d] = "arm"}}
    /\ half_locked' = (half_locked \/ \E c \in Callers : at[c] = "accept")
    /\ at' = [c \in Callers |-> "idle"]
    /\ ip' = [c \in Callers |-> none]
    /\ timed' = [c \in Callers |-> FALSE]
    /\ UNCHANGED <<kernel, raced, permanent, undermined, feigned>>

Step(c) ==
    \/ CheckFound(c) \/ CheckNotFound(c) \/ CheckFails(c)
    \/ Add(c) \/ AddFails(c) \/ Arm(c) \/ ArmFails(c) \/ Wake(c)
    \/ LockdownPosture(c) \/ AcceptEstablished(c) \/ AcceptFails(c) \/ RestorePosture(c)
    \/ \E a \in Addresses : UnblockIp(c, a) \/ \E t \in BOOLEAN : BlockIp(c, a, t)

Next == Crash \/ (\E a \in Addresses : WakeOrphan(a)) \/ \E c \in Callers : Step(c)

Spec == Init /\ [][Next]_vars

-----------------------------------------------------------------------------
(* An address has one rule at most, so that one iptables -D opens it again,  *)
(* unless two callers have both found it without one, or iptables could not  *)
(* look.                                                                    *)
DuplicatesOnlyByRace == \A a \in Addresses : Count(a) > 1 => a \in raced

(* A block for good lasts until unblock_ip, unless a timed block of the same *)
(* address was under way when it succeeded, or could not see the rule: its   *)
(* timer then ends both.  Only one that succeeded by a killed command has    *)
(* never been there.                                                        *)
PermanentBlockHolds ==
    \A a \in permanent : Blocked(a) \/ a \in undermined \/ a \in feigned

(* Each rule of a timed block still has a timer that will delete it, unless  *)
(* the daemon has ended between the two, a command of the timer has failed   *)
(* or was killed, or the address is blocked for good as well.               *)
TimedBlocksEnd == \A a \in Addresses \ kept : Count(a) <= Pending(a)

(* A closed chain lets established connections through, unless a lockdown    *)
(* is half-way, or has ended there.                                         *)
EstablishedSurvive ==
    policy = "DROP" =>
        Blocked("established") \/ half_locked \/ \E c \in Callers : at[c] = "accept"
=============================================================================
