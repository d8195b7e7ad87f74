------------------------------- MODULE BringUp ------------------------------
(***************************************************************************)
(* Bringing an adapter up: IntelgbeFirstTimeInit of Intelgbe.c with all it *)
(* calls in intelgbe_api.c, intelgbe_stmmac.c, intelgbe_phy.c and the PHY  *)
(* drivers, through the management bus of Mdio, to SerDes, PCS and PHY.    *)
(* Every access may fail, and take effect late; every device may answer    *)
(* late or not at all; and a controller that could not be started, or was  *)
(* stopped, may be started once more.                                      *)
(*                                                                         *)
(* A function that talks to a device is the sequence of its accesses; the  *)
(* driver runs through it with pc.                                         *)
(***************************************************************************)
EXTENDS Mdio, Sequences, SequencesExt

CONSTANTS
  Boards,    \* adapters: device id, PHY, its port and its clause, ..., and a
             \* bound: how often the controller is started
  PhyAddrs,  \* ports mii_phy_id_get scans: 0 .. PhyAddrs - 1
  Retries    \* polls of a device before the driver stops waiting for it

VARIABLES
  board,    \* the adapter, for good
  mac,      \* the MAC: its address register and its software reset bit
  fn, pc,   \* the function IntelgbeFirstTimeInit is in, and its next access
  hw,       \* struct intelgbe_hw
  loc,      \* locals: values read and written, retries, return value, ...
  outcome,  \* "none", "ok", or how IntelgbeFirstTimeInit failed
  attempt,  \* starts so far
  seen      \* history: functions an access of which failed, and functions that
            \* stopped waiting for a device

drvVars == <<fn, pc, hw, loc, outcome, attempt, seen>>
vars == <<mdioVars, board, mac, drvVars>>

SerdesPort == 21  \* MODPHY_ADDR
XpcsPort   == 22  \* XPCS_ADDR

ASSUME BringUpAssumption ==
  /\ PhyAddrs \in Nat \ {0}
  /\ Retries \in Nat \ {0}

\* Only these answer by themselves, see Answers.
ASSUME VolatileAssumption == Volatile \subseteq {"GSR0", "XCTRL", "ctrl", "status"}

\* A PHY is where the scan looks, and not where the SerDes or the XPCS is;
\* the 88E2110 has no Clause 22 registers.  What the source does not say is
\* left open: which identifier registers of SerDes and XPCS answer the scan,
\* none of them with the identifier of a PHY, and what the ones of the
\* 88E1512 hold on its other pages.
ASSUME BoardsAssumption ==
  \A b \in Boards :
    /\ b.port \in (0 .. PhyAddrs - 1) \ {SerdesPort, XpcsPort}
    /\ b.phy \in {"88E1512", "88E2110", "GPY", "other"}
    /\ b.c45 \in BOOLEAN /\ (b.phy = "88E2110" => b.c45)
    /\ {b.fast, b.eqos, b.fatal} \subseteq BOOLEAN
    /\ b.answers \subseteq {SerdesPort, XpcsPort} \X {"id22", "id45"}
    /\ b.paged \in {{}, AllOnes, {"other"}, {b.phy}}

-----------------------------------------------------------------------------
(* The tables by device id.                                                *)

\* mBrandingTable.
SupportedDevices ==
  {"4b32", "4ba0", "4ba1", "4ba2", "4bb0", "4bb1", "4bb2", "43ac", "43a2", "a0ac"}

\* intelgbe_set_mac_type: the interface, and is it a PSE controller?  An
\* RGMII controller leaves pse_gbe as it was, zero.
MacType(d) ==
  CASE d \in {"4ba0", "4bb0"} -> [interface |-> "RGMII", pse_gbe |-> FALSE]
    [] d = "4b32" -> [interface |-> "SGMII", pse_gbe |-> FALSE]
    [] d \in {"4ba1", "4bb1", "4ba2", "4bb2"} -> [interface |-> "SGMII", pse_gbe |-> TRUE]
    [] d \in {"43ac", "43a2", "a0ac"} -> [interface |-> "SGMII", pse_gbe |-> FALSE]
    [] OTHER -> [interface |-> "none", pse_gbe |-> FALSE]

\* Mutant: a device id is entered in one table and not in the other.
QueuesShort(d) ==
  CASE d \in {"4ba0", "4bb0", "4b32", "4ba1", "4bb1", "4ba2", "4bb2"} -> <<8, 8>>
    [] d \in {"43ac", "43a2"} -> <<4, 6>>
    [] OTHER -> <<>>

\* intelgbe_init_mac_ops: transmit and receive queues.
Queues(d) ==
  CASE d \in {"4ba0", "4bb0", "4b32", "4ba1", "4bb1", "4ba2", "4bb2"} -> <<8, 8>>
    [] d \in {"43ac", "43a2", "a0ac"} -> <<4, 6>>
    [] OTHER -> <<>>

\* intelgbe_init_phy_params_stmmac: a driver for this PHY behind this
\* interface.
PhyServed(id, interface) ==
  \/ id = {"88E1512"}
  \/ id \in {{"GPY"}, {"88E2110"}} /\ interface = "SGMII"

-----------------------------------------------------------------------------
(* The functions as sequences of accesses.  A step is taken if all of      *)
(* "when" holds; "onfail" says what a failed access does: "return" ends    *)
(* the function with the error, "go" remembers it and goes on, "end" ends  *)
(* the function and forgets it.                                            *)

Step(kind, reg, clear, set) ==
  [kind |-> kind, reg |-> reg, clear |-> clear, set |-> set, when |-> {}, onfail |-> "return"]

Rd(reg)                 == Step("read", reg, {}, {})
Put(reg, bits)          == Step("put", reg, {}, bits)
Await(reg, clear, set)  == Step("await", reg, clear, set)
Modify(reg, clear, set) == <<Rd(reg), Step("write", reg, clear, set)>>

When(c, s)      == [i \in DOMAIN s |-> [s[i] EXCEPT !.when = @ \cup {c}]]
OnFail(what, s) == [i \in DOMAIN s |-> [s[i] EXCEPT !.onfail = what]]

\* One turn of mii_phy_id_get: both halves by Clause 22, then by Clause 45.
mii_phy_id_get ==
  <<Step("id1", "id22", {}, {}), Step("id2", "id22", {}, {}),
    Step("id1", "id45", {}, {}), Step("id2", "id45", {}, {})>>

\* Mutant: the PSE part writes the value composed before power state P0.
modphy_init_stale ==
  <<Step("mode", "GCR", {}, {})>>
  \o When("fast", Modify("GCR0", {}, {"2G5"})) \o When("slow", Modify("GCR0", {"2G5"}, {}))
  \o Modify("GCR0", {}, {"PLL"}) \o <<Await("GSR0", {}, {"PLL"})>>
  \o Modify("GCR0", {}, {"RST"}) \o <<Await("GSR0", {}, {"RST"})>>
  \o Modify("GCR0", {"P3"}, {})  \o <<Await("GSR0", {"P3"}, {})>>
  \o When("pse", <<Rd("GCR0"), Put("GCR0", {"PLL", "RST", "P3", "RXCLK"})>>)

\* intelgbe_modphy_init.  The write of the PSE part does not use the value
\* read just before, but adds to the one written last.
intelgbe_modphy_init ==
  <<Step("mode", "GCR", {}, {})>>
  \o When("fast", Modify("GCR0", {}, {"2G5"})) \o When("slow", Modify("GCR0", {"2G5"}, {}))
  \o Modify("GCR0", {}, {"PLL"}) \o <<Await("GSR0", {}, {"PLL"})>>
  \o Modify("GCR0", {}, {"RST"}) \o <<Await("GSR0", {}, {"RST"})>>
  \o Modify("GCR0", {"P3"}, {})  \o <<Await("GSR0", {"P3"}, {})>>
  \o When("pse", <<Rd("GCR0"), Step("again", "GCR0", {}, {"RXCLK"})>>)

intelgbe_xpcs_init ==
  OnFail("go",
    Modify("XCTRL", {}, {"RST"}) \o <<Await("XCTRL", {"RST"}, {})>>
    \o When("fast", Modify("XDIG", {"autosw"}, {"2G5"}) \o Modify("XCTRL", {"AN"}, {"2G5"}))
    \o When("slow", Modify("XDIG", {}, {"autosw"}) \o Modify("XAN", {}, {"sgmii"})
                    \o Modify("XCTRL", {}, {"AN", "restart"})))

\* mii_phy_soft_reset, not waiting for the end of it.
mii_phy_soft_reset == Modify("ctrl", {}, {"RST"}) \o <<Rd("ctrl")>>

\* intelgbe_phy_initialize of the 88E1512, with the pages of its registers.
phy_initialize_88e1512 ==
  When("SGMII",
    <<Put("page", {"18"})>>
    \o OnFail("go", Modify("p18", {}, {"sgmii"}) \o Modify("p18", {}, {"reset"}))
    \o <<Step("check", "p18", {}, {})>>)
  \o <<Put("page", {"3"}), Put("led", {"def"}), Put("page", {"2"})>>
  \o Modify("padodd", {}, {"on"})
  \o <<Put("page", {"0"})>>
  \o OnFail("end", mii_phy_soft_reset)

m88e2110_phy_initialize ==
  OnFail("go", <<Step("boot", "boot", {}, {}), Rd("fw"), Rd("fw")>>)

\* ops.init of the PHY drivers; the GPY's has nothing to do.
PhyInit == When("88E1512", phy_initialize_88e1512) \o When("88E2110", m88e2110_phy_initialize)

\* mii_phy_config_link, with mii_phy_get_supported: what the PHY supports is
\* advertised, and negotiation started again if that is a change.
mii_phy_config_link ==
  <<Step("support", "ability", {}, {})>>
  \o When("c22", When("ext", <<Step("xstat", "xstat", {}, {})>>))
  \o <<Rd("adv"), Step("ifchanged", "adv", {"fe"}, {"sel"}), Step("support", "ability", {}, {})>>
  \o When("ext", <<Rd("gctrl"), Step("ifchanged", "gctrl", {"ge"}, {})>>)
  \o When("unchanged", <<Step("probe", "ctrl", {}, {})>>)
  \o When("changed",
       When("c45", <<Put("ctrl", {"AN", "restart"})>>)
       \o When("c22", Modify("ctrl", {"ISO"}, {"AN", "restart"}))
       \o <<Await("status", {}, {"done"})>>)
  \o <<Rd("lpa"), Rd("gstat")>>

\* Mutant: the page an earlier, failed initialisation selected is kept.
PhyCfgLinkAnyPage == When("88E2110", <<Put("multig", {"1G"})>>) \o mii_phy_config_link

\* ops.cfg_link of the PHY drivers.
PhyCfgLink ==
  When("88E1512", <<Put("page", {"0"})>>) \o When("88E2110", <<Put("multig", {"1G"})>>)
  \o mii_phy_config_link

Routines == {"scan", "modphy", "xpcs", "init", "cfg_link"}
Code == [f \in Routines |->
  CASE f = "scan"     -> mii_phy_id_get
    [] f = "modphy"   -> intelgbe_modphy_init
    [] f = "xpcs"     -> intelgbe_xpcs_init
    [] f = "init"     -> PhyInit
    [] f = "cfg_link" -> PhyCfgLink]

Program == Code[fn]
InCode  == fn \in Routines /\ pc <= Len(Program)
Item    == Program[pc]

-----------------------------------------------------------------------------
(* Initial state: the registers as the firmware left them.                 *)

SerdesRegs == {"GCR", "GCR0", "GSR0"}
XpcsRegs   == {"XCTRL", "XDIG", "XAN"}

\* The registers that are kept; of the others nobody looks at the contents.
PhyRegs(b) ==
  (IF b.c45 THEN {"id45"} ELSE {"id22", "id22p"}) \cup {"ctrl", "status", "ability", "adv", "gctrl"}
  \cup CASE b.phy = "88E1512" -> {"xstat", "page"}
         [] b.phy = "88E2110" -> {"boot"}
         [] OTHER -> {"xstat"}

RegsOf(b) ==
  ({SerdesPort} \X SerdesRegs) \cup {<<XpcsPort, "XCTRL">>} \cup b.answers
  \cup ({b.port} \X PhyRegs(b))

FirstValue(b, reg) ==
  CASE reg \in {"id22", "id45"} -> {b.phy}
    [] reg = "id22p" -> b.paged
    [] reg = "GCR" -> IF b.fast THEN {"2G5"} ELSE {}
    [] reg \in {"GCR0", "GSR0"} -> {"P3"}
    [] reg = "ctrl" -> b.ctrl
    [] reg = "adv" -> b.adv
    [] reg = "gctrl" -> {"ge"}
    [] reg = "ability" -> {"fe", "ge", "ext"}
    [] reg = "xstat" -> {"ge"}
    [] reg = "page" -> {"0"}
    [] reg = "boot" -> IF b.fatal THEN {"fatal"} ELSE {}
    [] OTHER -> {}

\* The identifiers of SerDes and XPCS are not those of a PHY.
FirstHeld(b, r) == IF r \in b.answers THEN {"other"} ELSE FirstValue(b, r[2])

NoValue == [ra |-> "0", gd |-> {}]
Locals  == [val |-> NoValue, data |-> {}, retries |-> Retries, ret |-> FALSE,
            ext |-> FALSE, changed |-> FALSE, phy |-> <<>>]
HwZero  == [interface |-> "none", pse_gbe |-> FALSE, addr |-> 0, id |-> {}, c45 |-> FALSE,
            speed_2500_en |-> FALSE, support |-> {}, mac_addr |-> "none"]

Init ==
  /\ board \in Boards
  /\ MdioInit
  /\ regs = [r \in RegsOf(board) |-> FirstHeld(board, r)]
  /\ mac = [addr |-> "factory", swr |-> FALSE]
  /\ fn = "setup" /\ pc = 1
  /\ hw = HwZero /\ loc = Locals
  /\ outcome = "none" /\ attempt = 1
  /\ seen = [failed |-> {}, timeout |-> {}]

-----------------------------------------------------------------------------
(* Running through a function.                                             *)

Leave(why) ==
  /\ outcome' = why
  /\ fn' = "end" /\ pc' = 1
  /\ loc' = Locals

\* History: the PHY when its link is about to be set up.
PhyNow == [reg \in {"adv", "gctrl", "ctrl"} |-> regs[<<board.port, reg>>]]

Enter(f, r) ==
  /\ fn' = f /\ pc' = 1
  /\ loc' = [Locals EXCEPT !.ret = r, !.phy = IF f = "cfg_link" THEN PhyNow ELSE <<>>]
  /\ UNCHANGED outcome

Conditions ==
  hw.id \cup {hw.interface, IF hw.speed_2500_en THEN "fast" ELSE "slow",
              IF hw.c45 THEN "c45" ELSE "c22", IF loc.changed THEN "changed" ELSE "unchanged"}
  \cup (IF hw.pse_gbe THEN {"pse"} ELSE {}) \cup (IF loc.ext THEN {"ext"} ELSE {})

Holds(i) == Program[i].when \subseteq Conditions
AtStep   == InCode /\ call.at = "idle" /\ Holds(pc)

\* The value a writing step composes; the advertisement is of what the PHY
\* supports.
NewValue ==
  CASE Item.kind = "write"     -> (loc.val.gd \ Item.clear) \cup Item.set
    [] Item.kind = "ifchanged" -> (loc.val.gd \ Item.clear) \cup Item.set
                                  \cup (hw.support \cap Item.clear)
    [] Item.kind = "again"     -> loc.data \cup Item.set
    [] Item.kind = "put"       -> Item.set

\* intelgbe_phy_modify_c22_if_changed, ..c45..: the new 16-bit value against
\* all 32 bits read, the register address of Clause 45 among them.
Same == loc.val.ra = "0" /\ loc.val.gd = NewValue

Writing == {"write", "put", "again", "ifchanged"}
PortOf(reg) ==
  IF reg \in SerdesRegs THEN SerdesPort ELSE IF reg \in XpcsRegs THEN XpcsPort ELSE hw.addr
\* MMD_AN_CTRL has the number zero.
RaOf(reg) ==
  IF reg \in XpcsRegs \cup {"id45"} \/ (hw.c45 /\ reg \notin SerdesRegs \cup {"ctrl", "id22"})
  THEN reg ELSE "0"

\* The access of the next step is called for.
AskStep ==
  /\ AtStep
  /\ Item.kind # "check"
  /\ Item.kind = "ifchanged" => ~Same
  /\ LET v == IF Item.kind \in Writing THEN NewValue ELSE {} IN
     /\ Ask(Access(IF Item.kind \in Writing THEN "write" ELSE "read",
                   PortOf(Item.reg), Item.reg, v, RaOf(Item.reg)))
     /\ loc' = IF Item.kind \in Writing THEN [loc EXCEPT !.data = v] ELSE loc
  /\ UNCHANGED <<board, mac, fn, pc, hw, outcome, attempt, seen>>

\* Steps whose condition does not hold, or a write that changes nothing.
SkipStep ==
  /\ InCode /\ call.at = "idle"
  /\ \/ /\ ~Holds(pc)
        /\ \E n \in pc + 1 .. Len(Program) + 1 :
             /\ n <= Len(Program) => Holds(n)
             /\ \A m \in pc .. n - 1 : ~Holds(m)
             /\ pc' = n
     \/ Holds(pc) /\ Item.kind = "ifchanged" /\ Same /\ pc' = pc + 1
  /\ UNCHANGED <<mdioVars, board, mac, fn, hw, loc, outcome, attempt, seen>>

\* The result of the access is taken and the function goes on at step n.
Proceed(n, l, h) ==
  /\ call' = Idle
  /\ pc' = n /\ loc' = l /\ hw' = h
  /\ UNCHANGED <<gmii, mdata, regs, board, mac, fn, outcome, attempt, seen>>

Got(kinds) == InCode /\ call.at = "ok" /\ Item.kind \in kinds
Keep       == [loc EXCEPT !.val = mdata]

ReadOk == Got({"read", "id1"}) /\ Proceed(pc + 1, Keep, hw)

WriteOk ==
  /\ Got(Writing)
  /\ Proceed(pc + 1, [loc EXCEPT !.val = NoValue, !.retries = Retries,
                                 !.changed = @ \/ Item.kind = "ifchanged"], hw)

\* SERDES_GCR: the speed the SerDes is strapped for.
ReadMode == Got({"mode"}) /\ Proceed(pc + 1, Keep, [hw EXCEPT !.speed_2500_en = "2G5" \in mdata.gd])

\* mii_phy_get_supported, and the second look at the extended-status bit.
ReadSupport ==
  /\ Got({"support"})
  /\ Proceed(pc + 1, [Keep EXCEPT !.ext = "ext" \in mdata.gd],
             [hw EXCEPT !.support = @ \cup (mdata.gd \cap IF hw.c45 /\ "ext" \in mdata.gd
                                                        THEN {"fe", "ge"} ELSE {"fe"})])

ReadXstat ==
  /\ Got({"xstat"})
  /\ Proceed(pc + 1, Keep, [hw EXCEPT !.support = @ \cup (mdata.gd \cap {"ge"})])

\* Mutant: a PHY that does not negotiate, or is isolated, is left alone.
ProbeNothing ==
  /\ Got({"probe"})
  /\ Proceed(pc + 1, Keep, hw)

\* Not a change, but negotiation was never on, or the PHY was isolated.
Probe ==
  /\ Got({"probe"})
  /\ Proceed(pc + 1, [Keep EXCEPT !.changed = "AN" \notin mdata.gd \/ "ISO" \in mdata.gd], hw)

Met(v) == Item.clear \cap v.gd = {} /\ Item.set \subseteq v.gd

\* Mutant: the loop does not count.
AwaitAgainForever ==
  /\ Got({"await"}) /\ ~Met(mdata) /\ loc.retries > 1
  /\ Proceed(pc, Keep, hw)

\* The device answers, or the loop goes round: do ... while (--retries).
AwaitMet   == Got({"await"}) /\ Met(mdata) /\ Proceed(pc + 1, Keep, hw)
AwaitAgain ==
  /\ Got({"await"}) /\ ~Met(mdata) /\ loc.retries > 1
  /\ Proceed(pc, [Keep EXCEPT !.retries = @ - 1], hw)

\* The device does not.  intelgbe_modphy_init then asks for retries < 0 and
\* goes on, intelgbe_xpcs_init returns an error, and the negotiation is not
\* waited for any longer.
AwaitTimeout ==
  /\ InCode /\ Item.kind = "await" /\ loc.retries = 1
  /\ \/ call.at = "ok" /\ ~Met(mdata)
     \/ call.at = "busy" /\ Item.onfail = "go" /\ ~Met(loc.val)
  /\ seen' = [seen EXCEPT !.timeout = @ \cup {fn}]
  /\ call' = Idle
  /\ IF fn = "xpcs"
     THEN Leave("error")
     ELSE pc' = pc + 1 /\ loc' = Keep /\ UNCHANGED <<fn, outcome>>
  /\ UNCHANGED <<gmii, mdata, regs, board, mac, hw, attempt>>

-----------------------------------------------------------------------------
(* A failed access.                                                        *)

Failed ==
  /\ InCode /\ call.at = "busy"
  /\ call' = Idle
  /\ seen' = [seen EXCEPT !.failed = @ \cup {IF Item.onfail = "end" THEN "soft_reset" ELSE fn}]
  /\ UNCHANGED <<gmii, mdata, regs, board, mac, hw, attempt>>

\* Mutant: what ops.init returns is lost.
ReturnErrorLost ==
  IF fn = "init"
  THEN Enter("cfg_link", FALSE)
  ELSE Leave(IF fn \in {"modphy", "xpcs"} THEN "error" ELSE "unsupported")

\* The function returns an error.  intelgbe_phy_init calls ops.cfg_link
\* also when ops.init has failed, and combines what they return.
ReturnError ==
  IF fn = "init"
  THEN Enter("cfg_link", TRUE)
  ELSE Leave(IF fn \in {"modphy", "xpcs"} THEN "error" ELSE "unsupported")

FailReturn ==
  /\ Failed
  /\ Item.onfail = "return"
  /\ ReturnError

\* The result of mii_phy_soft_reset is not looked at.
FailEnd ==
  /\ Failed
  /\ Item.onfail = "end"
  /\ pc' = Len(Program) + 1
  /\ UNCHANGED <<fn, loc, outcome>>

\* The error is remembered; of a modify the write is left out.
FailGo ==
  /\ Failed
  /\ Item.onfail = "go" /\ Item.kind # "await"
  /\ pc' = IF Item.kind = "read" /\ pc < Len(Program) /\ Program[pc + 1].kind = "write"
           THEN pc + 2 ELSE pc + 1
  /\ loc' = [loc EXCEPT !.ret = TRUE, !.val = NoValue]
  /\ UNCHANGED <<fn, outcome>>

\* In the loop of intelgbe_xpcs_init: the value read last, zero at first,
\* stands for the one that could not be read.
FailAwait ==
  /\ Failed
  /\ Item.onfail = "go" /\ Item.kind = "await"
  /\ \/ Met(loc.val) /\ pc' = pc + 1 /\ loc' = [loc EXCEPT !.ret = TRUE]
     \/ /\ ~Met(loc.val) /\ loc.retries > 1
        /\ pc' = pc /\ loc' = [loc EXCEPT !.ret = TRUE, !.retries = @ - 1]
  /\ UNCHANGED <<fn, outcome>>

\* m88e2110_phy_initialize tests the local it could not read into.
FailBoot ==
  /\ Failed
  /\ Item.kind = "boot"
  /\ ReturnError

\* if (retval < 0) return retval.
Check ==
  /\ AtStep /\ Item.kind = "check"
  /\ IF loc.ret THEN ReturnError ELSE pc' = pc + 1 /\ UNCHANGED <<fn, loc, outcome>>
  /\ UNCHANGED <<mdioVars, board, mac, hw, attempt, seen>>

ReadBoot ==
  /\ Got({"boot"})
  /\ call' = Idle
  /\ IF "fatal" \in mdata.gd
     THEN ReturnError
     ELSE pc' = pc + 1 /\ loc' = Keep /\ UNCHANGED <<fn, outcome>>
  /\ UNCHANGED <<gmii, mdata, regs, board, mac, hw, attempt, seen>>

-----------------------------------------------------------------------------
(* IntelgbeFirstTimeInit.                                                  *)

\* intelgbe_setup_init_funcs up to the scan for the PHY.
SetupInitFuncs ==
  /\ fn = "setup"
  /\ LET t == MacType(board.device) IN
     IF t.interface = "none" \/ Queues(board.device) = <<>>
     THEN Leave("unsupported") /\ UNCHANGED hw
     ELSE /\ Enter("scan", FALSE)
          /\ hw' = [hw EXCEPT !.interface = t.interface, !.pse_gbe = t.pse_gbe]
  /\ UNCHANGED <<mdioVars, board, mac, attempt, seen>>

NoId(id) == id \in {{}, AllOnes}

\* The loop of mii_phy_id_get has ended: phy_addr has been stepped on, and
\* must be below the bound.
Found(id) ==
  IF hw.addr + 1 < PhyAddrs
  THEN Enter("identify", FALSE) /\ hw' = [hw EXCEPT !.id = id, !.c45 = pc > 2]
  ELSE Leave("unsupported") /\ UNCHANGED hw

\* The second half of an identifier: Clause 45 is tried after Clause 22,
\* and then the next port.
ReadId ==
  /\ Got({"id2"})
  /\ call' = Idle
  /\ LET id == loc.val.gd \cup mdata.gd IN
     \/ ~NoId(id) /\ Found(id)
     \/ /\ NoId(id) /\ pc = 2
        /\ pc' = 3 /\ UNCHANGED <<fn, hw, loc, outcome>>
     \/ /\ NoId(id) /\ pc = 4
        /\ IF hw.addr + 1 < PhyAddrs
           THEN pc' = 1 /\ hw' = [hw EXCEPT !.addr = @ + 1] /\ UNCHANGED <<fn, loc, outcome>>
           ELSE Found(id)
  /\ UNCHANGED <<gmii, mdata, regs, board, mac, attempt, seen>>

\* The PHY's driver, the version of the MAC, and the MAC address.
Identify ==
  /\ fn = "identify"
  /\ IF PhyServed(hw.id, hw.interface) /\ board.eqos
     THEN /\ hw' = [hw EXCEPT !.mac_addr = mac.addr]
          /\ Enter(IF hw.interface = "SGMII" THEN "modphy" ELSE "init", FALSE)
     ELSE Leave("unsupported") /\ UNCHANGED hw
  /\ UNCHANGED <<mdioVars, board, mac, attempt, seen>>

\* The function has come to its end.  intelgbe_xpcs_init returns success
\* whatever it has remembered.
FunctionEnds ==
  /\ call.at = "idle"
  /\ fn \in Routines /\ pc > Len(Program)
  /\ \/ fn = "modphy" /\ Enter("xpcs", FALSE)
     \/ fn = "xpcs" /\ Enter("init", FALSE)
     \/ fn = "init" /\ Enter("cfg_link", loc.ret)
     \/ fn = "cfg_link" /\ loc.ret /\ Leave("unsupported")
     \/ fn = "cfg_link" /\ ~loc.ret /\ Enter("reset", FALSE)
  /\ UNCHANGED <<mdioVars, board, mac, hw, attempt, seen>>

\* intelgbe_reset_controller: the reset bit is set, and polled.
ResetStart ==
  /\ fn = "reset" /\ pc = 1
  /\ mac' = [mac EXCEPT !.swr = TRUE]
  /\ pc' = 2
  /\ UNCHANGED <<mdioVars, board, fn, hw, loc, outcome, attempt, seen>>

ResetPoll ==
  /\ fn = "reset" /\ pc = 2
  /\ mac.swr /\ loc.retries > 0
  /\ loc' = [loc EXCEPT !.retries = @ - 1]
  /\ UNCHANGED <<mdioVars, board, mac, fn, pc, hw, outcome, attempt, seen>>

ResetTimeout ==
  /\ fn = "reset" /\ pc = 2
  /\ loc.retries = 0
  /\ seen' = [seen EXCEPT !.timeout = @ \cup {fn}]
  /\ Leave("unsupported")
  /\ UNCHANGED <<mdioVars, board, mac, hw, attempt>>

ResetEnd ==
  /\ fn = "reset" /\ pc = 2
  /\ ~mac.swr /\ loc.retries > 0
  /\ Enter("write_mac", FALSE)
  /\ UNCHANGED <<mdioVars, board, mac, hw, attempt, seen>>

\* Mutant: the address is not written back.
WriteMacAddrNot ==
  /\ fn = "write_mac"
  /\ Enter("init_hw", FALSE)
  /\ UNCHANGED <<mdioVars, board, mac, hw, attempt, seen>>

\* The address read before the reset is written back after it.
WriteMacAddr ==
  /\ fn = "write_mac"
  /\ mac' = [mac EXCEPT !.addr = hw.mac_addr]
  /\ Enter("init_hw", FALSE)
  /\ UNCHANGED <<mdioVars, board, hw, attempt, seen>>

\* intelgbe_init_controller, which never fails.  Its rings are in TxRing and
\* RxRing, its look at the PHY in Link.
InitHw ==
  /\ fn = "init_hw"
  /\ Leave("ok")
  /\ UNCHANGED <<mdioVars, board, mac, hw, attempt, seen>>

\* The controller is started again, with new private data.
StartAgain ==
  /\ outcome # "none" /\ attempt < board.starts
  /\ attempt' = attempt + 1
  /\ outcome' = "none"
  /\ fn' = "setup" /\ pc' = 1
  /\ hw' = HwZero /\ loc' = Locals
  /\ seen' = [failed |-> {}, timeout |-> seen.timeout \cap {"reset"}]
  /\ UNCHANGED <<mdioVars, board, mac>>

-----------------------------------------------------------------------------
(* The devices, external.                                                  *)

\* What the registers by which the devices answer may come to hold.  A
\* device is seen only through the bus: that it has moved on matters when
\* such a register is being read.
Answers(r) ==
  CASE r[2] = "GSR0"   -> {regs[<<SerdesPort, "GCR0">>] \cap {"PLL", "RST", "P3"}}
    [] r[2] = "XCTRL"  -> {regs[r] \ {"RST"}}
    [] r[2] = "ctrl"   -> {regs[r] \ {"RST", "restart"}}
    [] r[2] = "status" -> {{}} \cup IF "AN" \in regs[<<board.port, "ctrl">>] THEN {{"done"}} ELSE {}

DeviceAnswers ==
  /\ gmii.busy /\ gmii.acc.op = "read"
  /\ LET r == <<gmii.acc.port, gmii.acc.reg>> IN
     /\ gmii.acc.reg \in Volatile /\ r \in DOMAIN regs
     /\ \E v \in Answers(r) : v # regs[r] /\ regs' = [regs EXCEPT ![r] = v]
  /\ UNCHANGED <<call, gmii, mdata, board, mac, drvVars>>

\* A software reset of the MAC also clears its address.
MacResetEnds ==
  /\ mac.swr
  /\ mac' = [addr |-> "cleared", swr |-> FALSE]
  /\ UNCHANGED <<mdioVars, board, drvVars>>

-----------------------------------------------------------------------------
Answered == ReadOk \/ WriteOk \/ ReadMode \/ ReadSupport \/ ReadXstat \/ Probe \/ ReadId
            \/ ReadBoot \/ AwaitMet \/ AwaitAgain \/ AwaitTimeout

NotAnswered == FailReturn \/ FailEnd \/ FailGo \/ FailAwait \/ FailBoot

FirstTimeInit == SetupInitFuncs \/ Identify \/ FunctionEnds \/ Check \/ ResetStart \/ ResetPoll
                 \/ ResetTimeout \/ ResetEnd \/ WriteMacAddr \/ InitHw

Driver ==
  \/ MdioRoutine /\ UNCHANGED <<board, mac, drvVars>>
  \/ AskStep \/ SkipStep
  \/ Answered \/ NotAnswered
  \/ FirstTimeInit

Devices ==
  \/ Complete /\ UNCHANGED <<board, mac, drvVars>>
  \/ DeviceAnswers
  \/ MacResetEnds

Next == Driver \/ Devices \/ StartAgain

Spec == Init /\ [][Next]_vars

(* The driver runs; nothing is asked of the devices.                       *)
FairSpec == Spec /\ WF_vars(Driver)

-----------------------------------------------------------------------------
(* The type invariant.                                                     *)
TypeOK ==
  /\ board \in Boards
  /\ call.at \in {"idle", "before", "after", "ok", "busy"} /\ call.limit \in 0 .. Limit
  /\ gmii.busy \in BOOLEAN
  /\ DOMAIN regs = RegsOf(board)
  /\ mac \in [addr : {"factory", "cleared", "none"}, swr : BOOLEAN]
  /\ fn \in Routines \cup {"setup", "identify", "reset", "write_mac", "init_hw", "end"}
  /\ pc \in 1 .. IF fn \in Routines THEN Len(Program) + 1 ELSE 2
  /\ hw.addr \in 0 .. PhyAddrs - 1
  /\ loc.retries \in 0 .. Retries
  /\ outcome \in {"none", "ok", "unsupported", "error"}
  /\ attempt \in 1 .. board.starts

(* The MDIO routines are atomic accesses: a read delivers what its own     *)
(* register held during the call, and an access given up takes effect at   *)
(* most once, before any later one, though its end is never waited for.    *)
ImplementsMdioAccess == Atomic!Spec

Up    == outcome = "ok"
Sgmii == MacType(board.device).interface = "SGMII"
Serdes(reg) == regs[<<SerdesPort, reg>>]
PhyReg(reg) == regs[<<board.port, reg>>]

(* An SGMII adapter that came up has its SerDes programmed as              *)
(* intelgbe_modphy_init means it, the lanes at the strapped speed, clocked,*)
(* reset, in power state P0 and with the receive clock of a PSE controller *)
(* ungated: although a timeout goes unnoticed, a write is composed from an *)
(* older value, and an earlier start may have stopped anywhere.            *)
SerdesProgrammed ==
  Up /\ Sgmii =>
    Serdes("GCR0") = {"PLL", "RST"} \cup (IF board.fast THEN {"2G5"} ELSE {})
                     \cup (IF board.device \in {"4ba1", "4bb1", "4ba2", "4bb2"} THEN {"RXCLK"} ELSE {})

(* IntelgbeFirstTimeInit succeeds only if every access did, those of       *)
(* intelgbe_xpcs_init and of the soft reset excepted, whose results are    *)
(* dropped: no return value is overwritten on the way up.                  *)
FailureReported == Up => seen.failed \subseteq {"xpcs", "soft_reset"}

PageOf == [reg \in {"p18", "led", "padodd", "ctrl", "status", "ability", "xstat", "adv", "gctrl",
                    "lpa", "gstat"} |->
            CASE reg = "p18" -> "18" [] reg = "led" -> "3" [] reg = "padodd" -> "2" [] OTHER -> "0"]

Accessing(reg) == gmii.busy /\ gmii.acc.port = board.port /\ gmii.acc.reg = reg

(* Each register of the 88E1512 is accessed with its page selected, also   *)
(* after an initialisation that stopped half-way and after a selection     *)
(* that was reported as failed.                                            *)
RightPage ==
  board.phy = "88E1512" =>
    \A reg \in DOMAIN PageOf : Accessing(reg) => PhyReg("page") = {PageOf[reg]}

(* mii_phy_id_get: identifiers are read from page 0 as well.               *)
IdFromPageZero ==
  board.phy = "88E1512" => (Accessing("id22") => PhyReg("page") = {"0"})

(* What the scan for the PHY may come upon instead: the SerDes or the XPCS,*)
(* at a port below the PHY's, or another page of an 88E1512, selected at an*)
(* earlier start that stopped half-way.                                    *)
InternalFirst == \E r \in board.answers : r[1] < board.port
OtherPage     == board.phy = "88E1512" /\ PhyReg("page") # {"0"}

Excused ==
  \/ seen.failed # {}
  \/ seen.timeout \cap {"xpcs", "reset"} # {}
  \/ ~PhyServed({board.phy}, MacType(board.device).interface)
  \/ ~board.eqos
  \/ board.fatal

Refused == board.device \in SupportedDevices /\ outcome \in {"unsupported", "error"}

(* A controller DriverSupported accepts is brought up, unless an access    *)
(* fails, a reset takes too long, the PHY is not one for it, or the scan   *)
(* for the PHY is misled in one of three ways: by the SerDes or the XPCS,  *)
(* by the page that is selected, or by a PHY at the last port.  So the     *)
(* tables by device id agree, and the scan finds every other PHY.          *)
RefusedForAReason ==
  Refused => Excused \/ InternalFirst \/ OtherPage \/ board.port = PhyAddrs - 1

(* The last port is none: "Loop through Phy Address 0..32".                *)
EveryPortScanned == Refused => Excused \/ InternalFirst \/ OtherPage

(* The devices of the adapter itself are none: "Find and store valid Phy   *)
(* ID".                                                                    *)
PhyIsIdentified == Refused => Excused \/ OtherPage \/ board.port = PhyAddrs - 1

(* The page is none: what an earlier start left behind does not matter.    *)
IdentifiedAgain == Refused => Excused \/ InternalFirst \/ board.port = PhyAddrs - 1

(* The MAC address survives the reset of the MAC: an adapter that came up  *)
(* has the one it was shipped with, in the driver and in the device.       *)
AddressKept ==
  Up /\ "reset" \notin seen.timeout => hw.mac_addr = "factory" /\ mac.addr = "factory"

(* The same after a reset that took too long at an earlier start.          *)
AddressAlwaysKept == Up => hw.mac_addr = "factory"

(* With a Clause 22 PHY, "Only restart aneg if we are advertising          *)
(* something different than we were before", or negotiation was off, or    *)
(* the PHY was isolated.                                                   *)
RestartNeeded ==
  \/ PhyReg("adv") # loc.phy["adv"]
  \/ PhyReg("gctrl") # loc.phy["gctrl"]
  \/ "AN" \notin loc.phy["ctrl"]
  \/ "ISO" \in loc.phy["ctrl"]

Restarting == fn = "cfg_link" /\ call.at = "before" /\ call.acc.reg = "ctrl" /\ "restart" \in call.acc.val

RestartOnlyIfDifferent == Restarting /\ ~hw.c45 => RestartNeeded

(* The same for every PHY.                                                 *)
NeverRestartedInVain == Restarting => RestartNeeded

(* An adapter that came up negotiates, advertises all its PHY supports and *)
(* is not isolated, whatever the PHY was left with and however often it    *)
(* was started.                                                            *)
Advertises ==
  Up => /\ PhyReg("ability") \cap {"fe"} \subseteq PhyReg("adv")
        /\ PhyReg("gctrl") = PhyReg("ability") \cap {"ge"}
        /\ "AN" \in PhyReg("ctrl") /\ "ISO" \notin PhyReg("ctrl")

(* intelgbe_modphy_init: "Serdes PLL clk request timeout", and return -1.  *)
SerdesAnswered == Up /\ Sgmii => "modphy" \notin seen.timeout

(* intelgbe_xpcs_init: "Check if the XPCS reset has completed".            *)
XpcsResetCompleted == fn = "init" /\ Sgmii => "RST" \notin regs[<<XpcsPort, "XCTRL">>]

(* IntelgbeFirstTimeInit ends, whatever the devices do.                    *)
BringUpEnds == outcome = "none" ~> outcome # "none"

-----------------------------------------------------------------------------
(* The inductive invariant behind ImplementsMdioAccess, AddressKept and    *)
(* FailureReported.                                                        *)

Records ==
  /\ {"at", "limit", "acc"} \subseteq DOMAIN call
  /\ {"busy", "acc"} \subseteq DOMAIN gmii /\ gmii.busy \in BOOLEAN
  /\ {"ra", "gd"} \subseteq DOMAIN mdata
  /\ {"addr", "swr"} \subseteq DOMAIN mac /\ mac.swr \in BOOLEAN
  /\ "mac_addr" \in DOMAIN hw
  /\ "ret" \in DOMAIN loc /\ loc.ret \in BOOLEAN
  /\ {"failed", "timeout"} \subseteq DOMAIN seen
  /\ pc \in Nat \ {0}

EndsOnce == outcome # "none" <=> fn = "end"

(* The reset is under way only while the driver waits for it, and the      *)
(* address is missing from the MAC only until it is written back.          *)
AddressFollowsReset ==
  "reset" \notin seen.timeout =>
    /\ mac.swr => fn = "reset" /\ pc = 2
    /\ fn \in {"reset", "write_mac"} \/ mac.addr = "factory"
    /\ fn \in {"modphy", "xpcs", "init", "cfg_link", "reset", "write_mac", "init_hw"} \/ Up
         => hw.mac_addr = "factory"

(* A failed access is remembered until the function that reports it ends.  *)
FailuresKept ==
  \/ outcome \in {"unsupported", "error"}
  \/ seen.failed \subseteq {"xpcs", "soft_reset"}
  \/ /\ fn \in {"init", "cfg_link"} /\ loc.ret
     /\ seen.failed \subseteq {"xpcs", "soft_reset", "init", "cfg_link"}

IInv == Records /\ BusAgreement /\ EndsOnce /\ AddressFollowsReset /\ FailuresKept

-----------------------------------------------------------------------------
(* What is true at each step of the functions: the inductive invariants    *)
(* behind SerdesProgrammed, RightPage, RefusedForAReason and Advertises.   *)

(* What register r holds once the command on the bus has ended.            *)
After(bus, held, r) ==
  IF bus.busy /\ bus.acc.op = "write" /\ <<bus.acc.port, bus.acc.reg>> = r
  THEN bus.acc.val ELSE held[r]
Settled(r) == After(gmii, regs, r)
Phy(reg) == Settled(<<board.port, reg>>)

(* The routine that has been called is at work for the next step, and a    *)
(* write stores what the step composes.                                    *)
StepAccess ==
  Access(IF Item.kind \in Writing THEN "write" ELSE "read", PortOf(Item.reg), Item.reg,
         IF Item.kind \in Writing THEN loc.data ELSE {}, RaOf(Item.reg))

CallIsStep ==
  call.at # "idle" =>
    /\ InCode /\ Holds(pc) /\ Item.kind # "check"
    /\ call.acc = StepAccess
    /\ Item.kind \in Writing \ {"again"} => loc.data = NewValue

(* Registers nobody writes and nobody changes.                             *)
Fixed == {"id22", "id45", "id22p", "GCR", "ability", "xstat", "boot"}

FixedKept ==
  /\ DOMAIN regs = RegsOf(board)
  /\ \A r \in RegsOf(board) : r[2] \in Fixed => regs[r] = FirstHeld(board, r)
  /\ gmii.busy /\ gmii.acc.op = "write" => gmii.acc.reg \notin Fixed

(* What the scan has read, and has found when it is over.  It goes past the*)
(* PHY only if it reads another page, which nothing changes meanwhile.     *)
Identifier(port, reg) == Content(regs, <<port, reg>>)

BusWrites == gmii.busy /\ gmii.acc.op = "write"

ScanReads ==
  \/ fn = "scan" /\ (pc > 1 \/ hw.addr > 0 \/ call.at \in {"after", "ok"})
  \/ fn = "identify"
  => ~BusWrites

Identified == hw.addr = board.port /\ hw.id = {board.phy} /\ hw.c45 = board.c45

Scanned ==
  /\ ScanReads
  /\ fn = "scan" =>
       /\ pc \in 1 .. 4 /\ hw.addr \in 0 .. PhyAddrs - 1
       /\ pc = 2 => loc.val.gd = Identifier(hw.addr, "id22")
       /\ pc = 4 => loc.val.gd = Identifier(hw.addr, "id45")
       /\ pc > 2 => NoId(Identifier(hw.addr, "id22"))
       /\ hw.addr > board.port => OtherPage
  /\ fn = "identify" => Identified \/ (hw.id = {"other"} /\ (InternalFirst \/ OtherPage))
  /\ fn \notin {"setup", "scan", "identify", "end"} => Identified
  /\ fn \notin {"setup", "end"} =>
       [interface |-> hw.interface, pse_gbe |-> hw.pse_gbe] = MacType(board.device)

LocalsKept ==
  /\ DOMAIN loc = DOMAIN Locals /\ DOMAIN hw = DOMAIN HwZero
  /\ loc.changed \in BOOLEAN /\ loc.ext \in BOOLEAN
  /\ fn = "setup" => hw = HwZero
  /\ board \in Boards

StepInv == LocalsKept /\ CallIsStep /\ Delivered /\ FixedKept /\ Scanned

(* What a function remembers as an error is one, and so is every refusal.  *)
ErrorsExcused ==
  /\ loc.ret => Excused
  /\ Refused => \/ Excused \/ InternalFirst \/ board.port = PhyAddrs - 1
                \/ OtherPage /\ ~BusWrites

(* The page that is selected at each step of the 88E1512's functions.      *)
PageSelected ==
  board.phy = "88E1512" =>
    /\ fn = "init" /\ pc \in 2 .. 6   => Phy("page") = {"18"}
    /\ fn = "init" /\ pc = 8          => Phy("page") = {"3"}
    /\ fn = "init" /\ pc \in 10 .. 11 => Phy("page") = {"2"}
    /\ fn = "init" /\ pc \in 13 .. 15 => Phy("page") = {"0"}
    /\ fn = "cfg_link" /\ pc > 1      => Phy("page") = {"0"}

PageInv == PageSelected /\ RightPage

(* What SERDES_GCR0, and each value on its way there, has before step i of *)
(* intelgbe_modphy_init: the writes are its steps 3, 5, 7, 10, 13 and 16.  *)
Pse(b) == MacType(b.device).pse_gbe
SerdesAt(b, i, v) ==
  /\ v \subseteq {"2G5", "PLL", "RST", "P3"} \cup (IF Pse(b) THEN {"RXCLK"} ELSE {})
  /\ i > 3 /\ b.fast  => "2G5" \in v
  /\ i > 5 /\ ~b.fast => "2G5" \notin v
  /\ i > 7  => "PLL" \in v
  /\ i > 10 => "RST" \in v
  /\ i > 13 => "P3" \notin v
  /\ i > 16 /\ Pse(b) => "RXCLK" \in v

AfterModphy == {"xpcs", "init", "cfg_link", "reset", "write_mac", "init_hw"}

SerdesInv ==
  LET v == Settled(<<SerdesPort, "GCR0">>)
  IN /\ SerdesAt(board, 1, v)
     /\ fn = "modphy" =>
          /\ SerdesAt(board, pc, v)
          /\ pc > 1 => hw.speed_2500_en = board.fast
          /\ pc \in {3, 5, 7, 10, 13} => SerdesAt(board, pc, loc.val.gd)
          /\ pc \in 14 .. 16 => SerdesAt(board, pc, loc.data)
          /\ call.at # "idle" /\ Item.kind \in Writing => SerdesAt(board, pc + 1, loc.data)
     /\ (fn \in AfterModphy \/ Up) /\ Sgmii => SerdesAt(board, 17, v)

(* When an adapter has come up, nothing is left on the bus: the last two   *)
(* accesses of mii_phy_config_link were waited for.                        *)
BusLeftFree ==
  /\ fn = "cfg_link" /\ pc > 15 /\ call.at \in {"idle", "before", "ok"} => ~gmii.busy
  /\ fn \in {"reset", "write_mac", "init_hw"} \/ Up => ~gmii.busy

(* What mii_phy_config_link has done before its steps.                     *)
Negotiates == "AN" \in Phy("ctrl") /\ "ISO" \notin Phy("ctrl")

LinkInv ==
  /\ Phy("gctrl") \subseteq {"ge"}
  /\ fn = "cfg_link" =>
       /\ pc > 3 => "fe" \in hw.support /\ loc.ext /\ (hw.c45 => "ge" \in hw.support)
       /\ pc > 4 => "ge" \in hw.support
       /\ pc = 6 /\ call.at = "idle" => loc.val.gd = Phy("adv")
       /\ pc > 6 => "fe" \in Phy("adv")
       /\ pc = 9 => loc.val.gd \subseteq {"ge"} /\ (call.at = "idle" => loc.val.gd = Phy("gctrl"))
       /\ pc > 9 => Phy("gctrl") = {"ge"}
       /\ pc > 10 /\ ~loc.changed => Negotiates
       /\ pc > 11 /\ hw.c45 /\ loc.changed => Negotiates
       /\ pc > 13 => Negotiates
  /\ fn \in {"reset", "write_mac", "init_hw"} \/ Up =>
       "fe" \in Phy("adv") /\ Phy("gctrl") = {"ge"} /\ Negotiates
=============================================================================
