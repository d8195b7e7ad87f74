----------------------------- MODULE MdioAccess -----------------------------
(***************************************************************************)
(* What the two MDIO routines promise their callers: an access takes       *)
(* effect at one instant between its call and its return, and an access    *)
(* reported as failed takes effect at most once, before any later one.     *)
(* Mdio implements it.                                                     *)
(***************************************************************************)
CONSTANTS
  Content(_, _),  \* what a read of a register delivers, by what all of them hold
  Volatile        \* numbers of registers the devices change by themselves

VARIABLES
  regs,   \* the registers behind the bus, by port and number
  asked,  \* the access called for, or None
  late,   \* an access reported as failed that may still take effect, or None
  done,   \* has the access called for taken effect?
  value   \* what it read

None == [op |-> "none"]

avars == <<regs, asked, late, done, value>>

Init ==
  /\ asked = None /\ late = None
  /\ done = FALSE
  /\ value = {}

Target(a) == <<a.port, a.reg>>

Call(a) ==
  /\ asked = None
  /\ asked' = a
  /\ done' = FALSE /\ value' = {}
  /\ UNCHANGED <<regs, late>>

Effect(a) ==
  regs' = IF a.op = "write" /\ Target(a) \in DOMAIN regs
          THEN [regs EXCEPT ![Target(a)] = a.val] ELSE regs

\* The access takes effect; one that failed earlier has done so before.
TakeEffect ==
  /\ asked # None /\ ~done /\ late = None
  /\ Effect(asked)
  /\ done' = TRUE
  /\ value' = IF asked.op = "write" THEN {} ELSE Content(regs, Target(asked))
  /\ UNCHANGED <<asked, late>>

Return ==
  /\ asked # None /\ done
  /\ asked' = None
  /\ done' = FALSE /\ value' = {}
  /\ UNCHANGED <<regs, late>>

\* Reported as failed: it never took place, it still may, or it has.
Fail ==
  /\ asked # None
  /\ asked' = None
  /\ done' = FALSE /\ value' = {}
  /\ \/ UNCHANGED late
     \/ ~done /\ late = None /\ late' = asked
  /\ UNCHANGED regs

LateEffect ==
  /\ late # None
  /\ Effect(late)
  /\ late' = None
  /\ UNCHANGED <<asked, done, value>>

Drift ==
  /\ DOMAIN regs' = DOMAIN regs
  /\ \A r \in DOMAIN regs : r[2] \notin Volatile => regs'[r] = regs[r]
  /\ UNCHANGED <<asked, late, done, value>>

Next ==
  \/ asked' # None /\ Call(asked')
  \/ TakeEffect
  \/ Return
  \/ Fail
  \/ LateEffect
  \/ Drift

Spec == Init /\ [][Next]_avars
=============================================================================
