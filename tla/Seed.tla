-------------------------------- MODULE Seed --------------------------------
(***************************************************************************)
(* The seed of the string hash: lh_char_hash (linkhash.c) keeps it in a    *)
(* static variable, and the first calls draw it (random_seed.c), each in   *)
(* a thread of its own.  The hash of a key is a function of the seed, so   *)
(* two seeds would send one key to two places of one table.                *)
(***************************************************************************)
EXTENDS Integers

CONSTANTS Thread,       \* threads that call lh_char_hash
          Bits,         \* width of an int
          Factor        \* 433494437

ASSUME BitsAssumption   == Bits \in Nat \ {0}
ASSUME FactorAssumption == Factor \in Nat

VARIABLES random_seed,  \* the static variable
          pc,           \* where a thread is: "idle", "test", "draw", "swap", "hash"
          seed,         \* its local variable
          used,         \* seeds hashes were made with so far
          device,       \* is there a /dev/urandom?
          clock,        \* the time in seconds, as an int sees it
          exited        \* the process has called exit(1)

vars == <<random_seed, pc, seed, used, device, clock, exited>>

\* The seed before there is one: what seeds never are.
Unset == -1

Int_ == -(2 ^ (Bits - 1)) .. 2 ^ (Bits - 1) - 1

Wrapped(n) == ((n + 2 ^ (Bits - 1)) % (2 ^ Bits)) - 2 ^ (Bits - 1)

\* get_time_seed
TimeSeed == Wrapped(clock * Factor)

\* json_c_get_random_seed, when it returns: four bytes of the device (or of
\* the processor, in a build that asks it), or a multiple of the time.
Drawable == IF device THEN Int_ ELSE {TimeSeed}

-----------------------------------------------------------------------------
Init ==
    /\ random_seed = Unset
    /\ pc = [th \in Thread |-> "idle"]
    /\ seed = [th \in Thread |-> Unset]
    /\ used = {}
    /\ device \in BOOLEAN
    /\ clock \in Int_
    /\ exited = FALSE

\* Thread th takes the step from a to b.
Step(th, a, b) == ~exited /\ pc[th] = a /\ pc' = [pc EXCEPT ![th] = b]

Call(th) ==
    /\ Step(th, "idle", "test")
    /\ UNCHANGED <<random_seed, seed, used, device, clock, exited>>

\* if (random_seed == -1)
Test(th) ==
    /\ Step(th, "test", IF random_seed = Unset THEN "draw" ELSE "hash")
    /\ UNCHANGED <<random_seed, seed, used, device, clock, exited>>

DrawUntilSet(th, x) ==                                           \* mutant
    /\ Step(th, "draw", IF random_seed = Unset THEN "draw" ELSE "swap")
    /\ x \in Drawable
    /\ seed' = [seed EXCEPT ![th] = x]
    /\ UNCHANGED <<random_seed, used, device, clock, exited>>

\* One turn of while ((seed = json_c_get_random_seed()) == -1)
Draw(th, x) ==
    /\ Step(th, "draw", IF x = Unset THEN "draw" ELSE "swap")
    /\ x \in Drawable
    /\ seed' = [seed EXCEPT ![th] = x]
    /\ UNCHANGED <<random_seed, used, device, clock, exited>>

\* The device cannot be opened, or is not read whole: get_dev_random_seed ends
\* the process.
DrawFails(th) ==
    /\ ~exited /\ pc[th] = "draw" /\ device
    /\ exited' = TRUE
    /\ UNCHANGED <<random_seed, pc, seed, used, device, clock>>

SwapStores(th) ==                                                \* mutant
    /\ Step(th, "swap", "hash")
    /\ random_seed' = seed[th]
    /\ UNCHANGED <<seed, used, device, clock, exited>>

\* __sync_val_compare_and_swap(&random_seed, -1, seed)
Swap(th) ==
    /\ Step(th, "swap", "hash")
    /\ random_seed' = IF random_seed = Unset THEN seed[th] ELSE random_seed
    /\ UNCHANGED <<seed, used, device, clock, exited>>

\* The last line reads the variable once more, and hashes.
Hash(th) ==
    /\ Step(th, "hash", "idle")
    /\ used' = used \cup {random_seed}
    /\ UNCHANGED <<random_seed, seed, device, clock, exited>>

\* External: a second passes.
Tick ==
    /\ ~exited
    /\ clock' = Wrapped(clock + 1)
    /\ UNCHANGED <<random_seed, pc, seed, used, device, exited>>

ThreadStep(th) ==
    \/ Call(th)
    \/ Test(th)
    \/ \E x \in Int_ : Draw(th, x)
    \/ DrawFails(th)
    \/ Swap(th)
    \/ Hash(th)

Next == Tick \/ \E th \in Thread : ThreadStep(th)

Spec == Init /\ [][Next]_vars

\* A thread in a call runs on, and time passes.  SF: a source that can be
\* asked for something else than -1 again and again gives it some time.
Running(th) == Test(th) \/ (\E x \in Int_ : Draw(th, x)) \/ Swap(th) \/ Hash(th)
DrawsSeed(th) == \E x \in Int_ \ {Unset} : Draw(th, x)

LiveSpec ==
    /\ Spec
    /\ WF_vars(Tick)
    /\ \A th \in Thread : WF_vars(Running(th)) /\ SF_vars(DrawsSeed(th))

-----------------------------------------------------------------------------
(* Properties.                                                             *)

\* However the first calls of several threads race, every hash ever made was
\* made with the seed there is now, and never with -1: a key is found where
\* it was put, by whichever thread.
OneSeed == used \subseteq {random_seed} \ {Unset}

\* Every call returns, or the process ends: no thread waits for another, and
\* the loop leaves a source that says -1, as the time does for a second.
CallsReturn == \A th \in Thread : pc[th] # "idle" ~> pc[th] = "idle" \/ exited
=============================================================================
