------------------------------- MODULE Escrow -------------------------------
(***************************************************************************)
(* What the two contracts that hold stake promise their depositors.  Ether *)
(* that is deposited stays until its account asks for it and the delay has *)
(* passed since it last asked; it is then paid in full.  Only an authority *)
(* takes more: it seizes part of an account, and may expel the account,    *)
(* whose rest the promise of a delay does not cover.  What it takes is     *)
(* counted, so that no payment passes for a seizure.  Whether and when an  *)
(* account that may be paid is paid is left open.                          *)
(***************************************************************************)
EXTENDS Integers

CONSTANTS
  Accounts,
  Delay,       \* how long an amount that was asked for stays
  Payments     \* the amounts that may be deposited at once

VARIABLES
  clock,
  held,        \* the Ether there is
  deposited,   \* account -> what it has deposited and not asked for
  leaving,     \* account -> what it is to be paid
  asked,       \* account -> when it last asked, or was expelled
  seized,      \* all that the authority has taken
  expelled     \* the accounts whose last leave was not their own

escrowVars == <<clock, held, deposited, leaving, asked, seized, expelled>>

EscrowInit ==
  /\ clock = 1
  /\ held = 0
  /\ deposited = [a \in Accounts |-> 0]
  /\ leaving = [a \in Accounts |-> 0]
  /\ asked = [a \in Accounts |-> 0]
  /\ seized = 0
  /\ expelled = {}

Deposit(a, v) ==
  /\ v > 0
  /\ held' = held + v
  /\ deposited' = [deposited EXCEPT ![a] = @ + v]
  /\ UNCHANGED <<clock, leaving, asked, seized, expelled>>

\* A deposit by which the account also stays with what it was to be paid.
Stay(a, v) ==
  /\ v > 0
  /\ held' = held + v
  /\ deposited' = [deposited EXCEPT ![a] = @ + leaving[a] + v]
  /\ leaving' = [leaving EXCEPT ![a] = 0]
  /\ UNCHANGED <<clock, asked, seized, expelled>>

\* Asking for more, or for nothing, starts the delay of all that is leaving again.
Ask(a, v) ==
  /\ deposited' = [deposited EXCEPT ![a] = @ - v]
  /\ leaving' = [leaving EXCEPT ![a] = @ + v]
  /\ asked' = [asked EXCEPT ![a] = clock]
  /\ expelled' = expelled \ {a}
  /\ UNCHANGED <<clock, held, seized>>

Pay(a) ==
  /\ leaving[a] > 0
  /\ clock >= asked[a] + Delay \/ a \in expelled
  /\ held' = held - leaving[a]
  /\ leaving' = [leaving EXCEPT ![a] = 0]
  /\ UNCHANGED <<clock, deposited, asked, seized, expelled>>

\* A deposit changes hands.
Move(a, b, v) ==
  /\ deposited' = [[deposited EXCEPT ![a] = @ - v] EXCEPT ![b] = @ + v]
  /\ UNCHANGED <<clock, held, leaving, asked, seized, expelled>>

Seize(a, v) ==
  /\ held' = held - v
  /\ seized' = seized + v
  /\ \/ /\ v <= deposited[a]
        /\ deposited' = [deposited EXCEPT ![a] = @ - v]
        /\ UNCHANGED leaving
     \/ /\ v <= leaving[a]
        /\ leaving' = [leaving EXCEPT ![a] = @ - v]
        /\ UNCHANGED deposited
  /\ UNCHANGED <<clock, asked, expelled>>

\* Nobody is expelled but by a seizure.
Expel(a, v) ==
  /\ held' = held - v
  /\ seized' = seized + v
  /\ deposited' = [deposited EXCEPT ![a] = 0]
  /\ leaving' = [leaving EXCEPT ![a] = @ + deposited[a] - v]
  /\ asked' = [asked EXCEPT ![a] = clock]
  /\ expelled' = expelled \cup {a}
  /\ UNCHANGED clock

Pass ==
  /\ clock' = clock + 1
  /\ UNCHANGED <<held, deposited, leaving, asked, seized, expelled>>

EscrowNext ==
  \/ \E a \in Accounts :
       \/ \E v \in Payments : Deposit(a, v) \/ Stay(a, v)
       \/ \E v \in 0 .. deposited[a] : Ask(a, v)
       \/ \E v \in 1 .. deposited[a] : Expel(a, v)
       \/ \E v \in 0 .. deposited[a], b \in Accounts : Move(a, b, v)
       \/ \E v \in 0 .. deposited[a] + leaving[a] : Seize(a, v)
       \/ Pay(a)
  \/ Pass

EscrowSpec == EscrowInit /\ [][EscrowNext]_escrowVars
=============================================================================
