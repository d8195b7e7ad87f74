-------------------------------- MODULE Mdio --------------------------------
(***************************************************************************)
(* The management bus: intelgbe_mdio_read and intelgbe_mdio_write of       *)
(* intelgbe_stmmac.c over the registers MAC_MDIO_ADDRESS and MAC_MDIO_DATA.*)
(* The two differ in the direction only.  An access that has not ended     *)
(* after Limit polls is given up, and may still end later.                 *)
(*                                                                         *)
(* A register holds a set of bits, as far as the driver tells them apart.  *)
(***************************************************************************)
EXTENDS Integers

CONSTANTS
  Limit,    \* limit: polls of the busy bit before and after a command
  Volatile  \* numbers of registers the devices change by themselves

ASSUME LimitAssumption == Limit \in Nat \ {0}

VARIABLES
  call,   \* the routine: where it is, the polls left, what it was asked for
  gmii,   \* MAC_MDIO_ADDRESS_REG: the command and its busy bit
  mdata,  \* MAC_MDIO_DATA_REG: register address and data fields
  regs    \* the registers behind the bus, by port and number

mdioVars == <<call, gmii, mdata, regs>>

AllOnes  == {"F"}  \* no device drives the bus

\* What a read of register r delivers.  On a page other than 0 the numbers of
\* the identifier registers belong to others, here "id22p".
Selected(held, r) ==
  IF r[2] = "id22" /\ <<r[1], "page">> \in DOMAIN held /\ held[<<r[1], "page">>] # {"0"}
  THEN <<r[1], "id22p">> ELSE r
Content(held, r) ==
  IF Selected(held, r) \in DOMAIN held THEN held[Selected(held, r)] ELSE AllOnes

NoAccess == [op |-> "none"]
Idle     == [at |-> "idle", limit |-> 0, acc |-> NoAccess]

MdioInit ==
  /\ call = Idle
  /\ gmii = [busy |-> FALSE, acc |-> NoAccess]
  /\ mdata = [ra |-> "0", gd |-> {}]

-----------------------------------------------------------------------------
(* The routine.                                                            *)

\* Parameters of a call: a Clause 45 access has the number of the register
\* in the data register, a Clause 22 access has zero there.
Access(op, port, reg, val, ra) ==
  [op |-> op, port |-> port, reg |-> reg, val |-> val, ra |-> ra]

Ask(acc) ==
  /\ call.at = "idle"
  /\ call' = [at |-> "before", limit |-> Limit, acc |-> acc]
  /\ UNCHANGED <<gmii, mdata, regs>>

\* One more turn of a waiting loop: while (limit--), still busy.
PollBusy ==
  /\ call.at \in {"before", "after"}
  /\ call.limit > 0
  /\ gmii.busy
  /\ call' = [call EXCEPT !.limit = @ - 1]
  /\ UNCHANGED <<gmii, mdata, regs>>

\* Mutant: the command is written without waiting for the bus.
CommandAtOnce ==
  /\ call.at = "before"
  /\ call.limit > 0
  /\ mdata' = [ra |-> call.acc.ra, gd |-> call.acc.val]
  /\ gmii' = [busy |-> TRUE, acc |-> call.acc]
  /\ call' = [call EXCEPT !.at = "after", !.limit = Limit]
  /\ UNCHANGED regs

\* The bus is free: data, then command with the busy bit.
Command ==
  /\ call.at = "before"
  /\ call.limit > 0
  /\ ~gmii.busy
  /\ mdata' = [ra |-> call.acc.ra, gd |-> call.acc.val]
  /\ gmii' = [busy |-> TRUE, acc |-> call.acc]
  /\ call' = [call EXCEPT !.at = "after", !.limit = Limit]
  /\ UNCHANGED regs

\* The command has ended: the routine returns success, a read with the
\* whole of the data register.
Succeed ==
  /\ call.at = "after"
  /\ call.limit > 0
  /\ ~gmii.busy
  /\ call' = [call EXCEPT !.at = "ok", !.limit = 0]
  /\ UNCHANGED <<gmii, mdata, regs>>

\* limit has passed zero: -INTELGBE_BUSY.
GiveUp ==
  /\ call.at \in {"before", "after"}
  /\ call.limit = 0
  /\ call' = [call EXCEPT !.at = "busy"]
  /\ UNCHANGED <<gmii, mdata, regs>>

MdioRoutine == PollBusy \/ Command \/ Succeed \/ GiveUp

-----------------------------------------------------------------------------
(* The MAC's management interface and the devices, external.               *)

Complete ==
  /\ gmii.busy
  /\ gmii' = [gmii EXCEPT !.busy = FALSE]
  /\ LET r == <<gmii.acc.port, gmii.acc.reg>> IN
     IF gmii.acc.op = "read"
     THEN /\ mdata' = [mdata EXCEPT !.gd = Content(regs, r)]
          /\ UNCHANGED regs
     ELSE /\ regs' = IF r \in DOMAIN regs THEN [regs EXCEPT ![r] = mdata.gd] ELSE regs
          /\ UNCHANGED mdata
  /\ UNCHANGED call

-----------------------------------------------------------------------------
(* As MdioAccess sees it: a call is open until it is given up or its       *)
(* result is taken.                                                        *)

Ended == call.at = "ok" \/ (call.at = "after" /\ ~gmii.busy)

Atomic == INSTANCE MdioAccess WITH
  Content  <- Content,
  asked    <- IF call.at \in {"before", "after", "ok"} THEN call.acc ELSE NoAccess,
  late     <- IF gmii.busy /\ call.at # "after" THEN gmii.acc ELSE NoAccess,
  done     <- Ended,
  value    <- IF Ended /\ call.acc.op = "read" THEN mdata.gd ELSE {}

(* Why it is: the command on the bus is the one the routine waits for, the *)
(* data register keeps what a write of it is to store, and nothing is on   *)
(* the bus when a routine has returned success.                            *)
BusAgreement ==
  /\ call.at \in {"idle", "before", "after", "ok", "busy"}
  /\ call.at # "idle" => call.acc.op \in {"read", "write"}
  /\ gmii.busy => /\ gmii.acc.op \in {"read", "write"}
                  /\ gmii.acc.op = "write" => mdata.gd = gmii.acc.val
  /\ call.at = "after" => gmii.acc = call.acc
  /\ call.at = "ok" => ~gmii.busy

(* What a routine's own command did when it ended is still so: nothing     *)
(* changes while the bus is free.                                          *)
Delivered ==
  call.at \in {"after", "ok"} /\ ~gmii.busy =>
    LET r == <<call.acc.port, call.acc.reg>>
    IN IF call.acc.op = "read"
       THEN mdata.gd = Content(regs, r)
       ELSE r \in DOMAIN regs => regs[r] = call.acc.val
=============================================================================
