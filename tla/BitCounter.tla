----------------------------- MODULE BitCounter -----------------------------
(* check_dependency_counter_bits: the dependencies of one task are the bits  *)
(* of a Redis string, bit 0 the most significant of the first byte.  The     *)
(* string is only as long as the last bit set requires.  A call to Redis may *)
(* fail after it took effect, and is then made again.                        *)
EXTENDS Naturals, FiniteSets, FiniteSetsExt

CONSTANTS Sizes,      \* the numbers of dependencies to look at
          MaxLost,    \* bound: calls that fail after they took effect
          MaxBitTries \* max_tries (10 in the code)

(* A task with a counter has a dependency.                                   *)
ASSUME BitAssumption == Sizes \subseteq Nat \ {0}

VARIABLES size,    \* num_dependencies
          bits,    \* the offsets of the bits that are 1
          step,    \* step[d]: what the Executor of dependency d does next
          tries,   \* tries[d]: its calls that failed
          claims,  \* how often an Executor found the task ready
          lost     \* how often a call failed after it took effect

bitVars == <<size, bits, step, tries, claims, lost>>

Offsets == 0..size - 1
Steps == {"running", "check", "set", "done", "raised"}

(* Those whose become node the task is check before they set their bit.      *)
BitInit ==
    /\ size \in Sizes
    /\ bits = {} /\ claims = 0 /\ lost = 0
    /\ step = [d \in Offsets |-> "running"]
    /\ tries = [d \in Offsets |-> 0]

(* The number whose first n bits, the most significant first, are those at   *)
(* the offsets of the set.                                                   *)
NumberOf(set, n) ==
    LET first[i \in 0..n] ==
            IF i = 0 THEN 0 ELSE 2 * first[i - 1] + (IF i - 1 \in set THEN 1 ELSE 0)
    IN  first[n]

(* int(dep_counter_bytes.hex(), base = 16) *)
BitValue(set) == NumberOf(set, 8 * (Max(set) \div 8 + 1))

(* create_mask *)
CreateMaskUnshifted(n, omit) == NumberOf((0..n - 1) \ omit, n)  \* mistake
CreateMask(n, omit) == NumberOf((0..n - 1) \ omit, 8 * ((n + 7) \div 8))

Ran(d, becomes) ==
    /\ step[d] = "running"
    /\ step' = [step EXCEPT ![d] = IF becomes THEN "check" ELSE "set"]
    /\ UNCHANGED <<size, bits, tries, claims, lost>>

(* increment = False: without the own bit, or with it.                       *)
CheckReadyEarly(d) == bits \cup {d} # {}  \* mistake: any bit will do
CheckReady(d) ==
    bits # {} /\ BitValue(bits) \in {CreateMask(size, {d}), CreateMask(size, {})}
Check(d) ==
    /\ step[d] = "check"
    /\ step' = [step EXCEPT ![d] = IF CheckReady(d) THEN "done" ELSE "set"]
    /\ claims' = IF CheckReady(d) THEN claims + 1 ELSE claims
    /\ UNCHANGED <<size, bits, tries, lost>>

(* increment = True: one transaction sets the bit and reads all of them.     *)
SetReadyPast(set) == BitValue(set) > CreateMask(size, {})  \* mistake: the comparison
SetReady(set) == BitValue(set) = CreateMask(size, {})
SetBit(d) ==
    /\ step[d] = "set"
    /\ bits' = bits \cup {d}
    /\ step' = [step EXCEPT ![d] = "done"]
    /\ claims' = IF SetReady(bits') THEN claims + 1 ELSE claims
    /\ UNCHANGED <<size, tries, lost>>

SetBitFails(d) ==
    /\ step[d] = "set" /\ lost < MaxLost
    /\ lost' = lost + 1
    /\ bits' = bits \cup {d}
    /\ tries' = [tries EXCEPT ![d] = @ + 1]
    /\ step' = [step EXCEPT ![d] = IF tries'[d] = MaxBitTries THEN "raised" ELSE "set"]
    /\ UNCHANGED <<size, claims>>

BitNext ==
    \E d \in Offsets :
        \/ \E becomes \in BOOLEAN : Ran(d, becomes /\ d \in {0, size - 1})
        \/ Check(d) \/ SetBit(d) \/ SetBitFails(d)

BitSpec == BitInit /\ [][BitNext]_bitVars
-----------------------------------------------------------------------------
(* Nobody takes the task before every dependency has been executed, even if  *)
(* a bit is set again after a lost answer.                                   *)
BitsNotEarly == claims > 0 => \A d \in Offsets : step[d] # "running"

(* Only one Executor takes the task, unless an answer was lost: then the one *)
(* that sets its bit again may find all of them set, as another did before.  *)
BitsClaimedOnce == lost = 0 => claims <= 1

(* When all are through, one of them has taken the task, unless an Executor  *)
(* gave up.                                                                  *)
BitsClaimed ==
    (\A d \in Offsets : step[d] = "done") => claims >= 1
=============================================================================
