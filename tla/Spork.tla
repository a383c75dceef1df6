-------------------------------- MODULE Spork --------------------------------
(***************************************************************************)
(* One spork (spork.cpp, sporkdb.cpp) on several nodes: a signed message   *)
(* with a value and the time it was signed.  A node keeps every message it *)
(* has seen (mapSporks, from which "getdata" is answered), the one it      *)
(* holds for current (mapSporksActive, which "getsporks" sends) and a copy *)
(* on disk (sporkDB).  The value is a date: the spork is on once it has    *)
(* passed.                                                                 *)
(*                                                                         *)
(* Signatures are right (only the holder of the key signs).  The clocks    *)
(* of the nodes agree; what a node signs need not be newer than what it    *)
(* holds, and two messages may carry the same second.                      *)
(***************************************************************************)
EXTENDS Integers, FiniteSets

CONSTANTS Node,
          SporkSigner,  \* the node with the key, the argument of -sporkkey
          SporkValue,   \* the dates that are signed
          SporkDefault, \* SPORK_8_MASTERNODE_PAYMENT_ENFORCEMENT_DEFAULT
          MaxClock,     \* bound: the last second
          MaxSigned     \* bound: messages signed

ASSUME SporkAssumption ==
  /\ SporkSigner \in Node
  /\ SporkValue \subseteq Nat /\ SporkDefault \in Nat
  /\ MaxClock \in Nat /\ MaxSigned \in Nat

VARIABLES clock,            \* GetTime()
          mapSporks, mapSporksActive, sporkDB,
          signed            \* history: every message signed

sporkVars == <<clock, mapSporks, mapSporksActive, sporkDB, signed>>

SporkMessage == [nValue : SporkValue, nTimeSigned : 0..MaxClock]

\* "Not in the map, not in the database"
NoSpork == [nValue |-> SporkDefault, nTimeSigned |-> -1]

SporkInit ==
  /\ clock = 0
  /\ mapSporks = [n \in Node |-> {}]
  /\ mapSporksActive = [n \in Node |-> NoSpork]
  /\ sporkDB = [n \in Node |-> NoSpork]
  /\ signed = {}

-----------------------------------------------------------------------------
GetSporkValue(n) == mapSporksActive[n].nValue

IsSporkActive(n) == GetSporkValue(n) < clock

\* Mutant: the signing times are not compared
Supersedes_Always(m, old) == m # old

\* A message signed in the same second counts as seen
Supersedes(m, old) == old.nTimeSigned < m.nTimeSigned

\* "spork": m, relayed or sent for a "getsporks" by a node that has it
ProcessSpork(n, from, m) ==
  /\ from # n
  /\ m \in mapSporks[from]
  /\ Supersedes(m, mapSporksActive[n])
  /\ mapSporks' = [mapSporks EXCEPT ![n] = @ \cup {m}]
  /\ mapSporksActive' = [mapSporksActive EXCEPT ![n] = m]
  /\ sporkDB' = [sporkDB EXCEPT ![n] = m]
  /\ UNCHANGED <<clock, signed>>

\* The signer's own message is neither compared with what it holds nor written to disk
UpdateSpork(n, nValue) ==
  LET m == [nValue |-> nValue, nTimeSigned |-> clock]
  IN  /\ n = SporkSigner
      /\ Cardinality(signed) < MaxSigned
      /\ mapSporks' = [mapSporks EXCEPT ![n] = @ \cup {m}]
      /\ mapSporksActive' = [mapSporksActive EXCEPT ![n] = m]
      /\ signed' = signed \cup {m}
      /\ UNCHANGED <<clock, sporkDB>>

\* A node starts again with what is on disk
LoadSporksFromDB(n) ==
  /\ mapSporks' = [mapSporks EXCEPT ![n] = {sporkDB[n]} \ {NoSpork}]
  /\ mapSporksActive' = [mapSporksActive EXCEPT ![n] = sporkDB[n]]
  /\ UNCHANGED <<clock, sporkDB, signed>>

Tick ==
  /\ clock < MaxClock
  /\ clock' = clock + 1
  /\ UNCHANGED <<mapSporks, mapSporksActive, sporkDB, signed>>

HearSpork(n) == \E from \in Node, m \in SporkMessage : ProcessSpork(n, from, m)

-----------------------------------------------------------------------------
\* As long as no two messages carry the same second, all nodes come to hold the same
\* spork, although the signer does not save what it signs and goes back to an older one
\* when it restarts, and old messages may arrive after new ones (ProcessSpork).
SporksConverge ==
  \/ <>(\E m1, m2 \in signed : m1 # m2 /\ m1.nTimeSigned = m2.nTimeSigned)
  \/ <>[](\A n1, n2 \in Node : mapSporksActive[n1] = mapSporksActive[n2])
=============================================================================
