------------------------------ MODULE Snp_proofs ----------------------------
(***************************************************************************)
(* The SNP driver for every ring, every size of the status block and of    *)
(* the array of recycled buffers, every number of bindings and any order   *)
(* of calls: its state is one the UNDI serves, it holds what its state     *)
(* says, and no transmit buffer is lost or returned twice.                 *)
(***************************************************************************)
EXTENDS Snp, SequenceTheorems, FiniteSetTheorems, TLAPS

-----------------------------------------------------------------------------
(* The programs step by step.                                              *)

LEMMA HeadTail ==
  ASSUME NEW a, NEW b, NEW c, NEW d, NEW e, NEW f, NEW g
  PROVE  /\ Head(<<a>>) = a /\ Tail(<<a>>) = <<>>
         /\ Head(<<a, b>>) = a /\ Tail(<<a, b>>) = <<b>>
         /\ Head(<<a, b, c>>) = a /\ Tail(<<a, b, c>>) = <<b, c>>
         /\ Head(<<a, b, c, d>>) = a /\ Tail(<<a, b, c, d>>) = <<b, c, d>>
         /\ Head(<<a, b, c, d, e>>) = a /\ Tail(<<a, b, c, d, e>>) = <<b, c, d, e>>
         /\ Head(<<a, b, c, d, e, f>>) = a /\ Tail(<<a, b, c, d, e, f>>) = <<b, c, d, e, f>>
         /\ Head(<<a, b, c, d, e, f, g>>) = a /\ Tail(<<a, b, c, d, e, f, g>>) = <<b, c, d, e, f, g>>
OBVIOUS

LEMMA NotEmpty ==
  ASSUME NEW a, NEW b, NEW c, NEW d, NEW e, NEW f, NEW g
  PROVE  /\ <<a>> # <<>> /\ <<a, b>> # <<>> /\ <<a, b, c>> # <<>> /\ <<a, b, c, d>> # <<>>
         /\ <<a, b, c, d, e>> # <<>> /\ <<a, b, c, d, e, f>> # <<>> /\ <<a, b, c, d, e, f, g>> # <<>>
OBVIOUS

LEMMA PlainTail ==
  ASSUME NEW S, NEW s \in Seq(S), s # <<>>
  PROVE  Head(s) \in S /\ Tail(s) \in Seq(S)
OBVIOUS

-----------------------------------------------------------------------------
(* Sequences without repetitions.                                          *)

LEMMA Elements ==
  ASSUME NEW S, NEW s \in Seq(S)
  PROVE  /\ DOMAIN s = 1 .. Len(s) /\ Len(s) \in Nat
         /\ ToSet(s) = {s[i] : i \in 1 .. Len(s)}
         /\ \A x : x \in ToSet(s) <=> \E i \in 1 .. Len(s) : s[i] = x
BY DEF ToSet

LEMMA AppendOnce ==
  ASSUME NEW S, NEW s \in Seq(S), NEW x \in S, IsInjective(s), x \notin ToSet(s)
  PROVE  /\ Append(s, x) \in Seq(S) /\ Len(Append(s, x)) = Len(s) + 1
         /\ IsInjective(Append(s, x)) /\ ToSet(Append(s, x)) = ToSet(s) \cup {x}
<1> DEFINE t == Append(s, x)
<1>1. /\ t \in Seq(S) /\ Len(t) = Len(s) + 1 /\ Len(s) \in Nat /\ t[Len(t)] = x
      /\ \A i \in 1 .. Len(s) : t[i] = s[i]
  OBVIOUS
<1> HIDE DEF t
<1>2. \A i \in 1 .. Len(s) : t[i] # x
  BY <1>1, Elements
<1>3. IsInjective(t)
  <2> SUFFICES ASSUME NEW i \in 1 .. Len(t), NEW j \in 1 .. Len(t), t[i] = t[j] PROVE i = j
    BY <1>1, Elements DEF IsInjective
  <2>1. CASE i \in 1 .. Len(s) /\ j \in 1 .. Len(s)
    BY <1>1, <2>1, Elements DEF IsInjective
  <2> QED
    BY <1>1, <1>2, <2>1
<1>4. ASSUME NEW y PROVE y \in ToSet(t) <=> y \in ToSet(s) \cup {x}
  <2>1. y \in ToSet(t) <=> \E i \in 1 .. Len(t) : t[i] = y
    BY <1>1, Elements
  <2>2. y \in ToSet(s) <=> \E i \in 1 .. Len(s) : s[i] = y
    BY Elements
  <2> QED
    BY <1>1, <2>1, <2>2
<1> QED
  BY <1>1, <1>3, <1>4 DEF t

LEMMA SplitOnce ==
  ASSUME NEW S, NEW s \in Seq(S), IsInjective(s), NEW n \in Nat, n <= Len(s)
  PROVE  /\ SubSeq(s, 1, n) \in Seq(S) /\ Len(SubSeq(s, 1, n)) = n
         /\ SubSeq(s, n + 1, Len(s)) \in Seq(S) /\ Len(SubSeq(s, n + 1, Len(s))) = Len(s) - n
         /\ IsInjective(SubSeq(s, 1, n)) /\ IsInjective(SubSeq(s, n + 1, Len(s)))
         /\ ToSet(SubSeq(s, 1, n)) \cap ToSet(SubSeq(s, n + 1, Len(s))) = {}
         /\ ToSet(SubSeq(s, 1, n)) \cup ToSet(SubSeq(s, n + 1, Len(s))) = ToSet(s)
<1> DEFINE a == SubSeq(s, 1, n)
           b == SubSeq(s, n + 1, Len(s))
<1>1. /\ a \in Seq(S) /\ Len(a) = n /\ b \in Seq(S) /\ Len(b) = Len(s) - n /\ Len(s) \in Nat
      /\ \A i \in 1 .. n : a[i] = s[i]
      /\ \A i \in 1 .. Len(s) - n : b[i] = s[i + n]
  BY SubSeqProperties
<1> HIDE DEF a, b
<1>2. \A i, j \in 1 .. Len(s) : s[i] = s[j] => i = j
  BY Elements DEF IsInjective
<1>3. DOMAIN a = 1 .. n /\ DOMAIN b = 1 .. Len(s) - n
  BY <1>1
<1>4. IsInjective(a)
  BY <1>1, <1>2, <1>3 DEF IsInjective
<1>5. IsInjective(b)
  <2> SUFFICES ASSUME NEW i \in 1 .. Len(s) - n, NEW j \in 1 .. Len(s) - n, b[i] = b[j] PROVE i = j
    BY <1>3 DEF IsInjective
  <2>1. i + n \in 1 .. Len(s) /\ j + n \in 1 .. Len(s) /\ s[i + n] = s[j + n]
    BY <1>1
  <2> QED
    BY <1>2, <2>1
<1>6. \A x : x \in ToSet(a) <=> \E i \in 1 .. n : s[i] = x
  BY <1>1, Elements
<1>7. ASSUME NEW x PROVE x \in ToSet(b) <=> \E i \in n + 1 .. Len(s) : s[i] = x
  <2>1. x \in ToSet(b) <=> \E i \in 1 .. Len(s) - n : b[i] = x
    BY <1>1, Elements
  <2>2. ASSUME NEW i \in 1 .. Len(s) - n, b[i] = x PROVE \E k \in n + 1 .. Len(s) : s[k] = x
    <3>1. i + n \in n + 1 .. Len(s) /\ s[i + n] = x
      BY <1>1, <2>2
    <3> QED
      BY <3>1
  <2>3. ASSUME NEW i \in n + 1 .. Len(s), s[i] = x PROVE \E k \in 1 .. Len(s) - n : b[k] = x
    <3>1. i - n \in 1 .. Len(s) - n /\ (i - n) + n = i
      BY <1>1
    <3>2. b[i - n] = x
      BY <1>1, <2>3, <3>1
    <3> QED
      BY <3>1, <3>2
  <2> QED
    BY <2>1, <2>2, <2>3
<1>8. ASSUME NEW x PROVE x \in ToSet(s) <=> x \in ToSet(a) \/ x \in ToSet(b)
  <2>1. x \in ToSet(s) <=> \E i \in 1 .. Len(s) : s[i] = x
    BY Elements
  <2> QED
    BY <1>1, <1>6, <1>7, <2>1
<1>9. ASSUME NEW x, x \in ToSet(a), x \in ToSet(b) PROVE FALSE
  <2>1. PICK i \in 1 .. n : s[i] = x
    BY <1>6, <1>9
  <2>2. PICK j \in n + 1 .. Len(s) : s[j] = x
    BY <1>7, <1>9
  <2>3. i \in 1 .. Len(s) /\ j \in 1 .. Len(s) /\ i # j
    BY <1>1
  <2> QED
    BY <1>2, <2>1, <2>2, <2>3
<1> QED
  BY <1>1, <1>4, <1>5, <1>8, <1>9 DEF a, b

LEMMA FrontOnce ==
  ASSUME NEW S, NEW s \in Seq(S), IsInjective(s), s # <<>>
  PROVE  /\ Front(s) \in Seq(S) /\ IsInjective(Front(s))
         /\ ToSet(Front(s)) = ToSet(s) \ {Last(s)}
<1> DEFINE n == Len(s) - 1
<1>1. Len(s) \in Nat /\ n \in Nat /\ n <= Len(s) /\ n + 1 = Len(s)
  BY EmptySeq
<1>2. Front(s) = SubSeq(s, 1, n)
  BY DEF Front
<1>3. ToSet(SubSeq(s, n + 1, Len(s))) = {Last(s)}
  <2> DEFINE t == SubSeq(s, Len(s), Len(s))
  <2>1. t \in Seq(S) /\ Len(t) = 1 /\ t[1] = s[Len(s)]
    BY <1>1, SubSeqProperties
  <2> HIDE DEF t
  <2>2. ToSet(t) = {t[1]}
    BY <2>1, Elements
  <2> QED
    BY <1>1, <2>1, <2>2 DEF t, Last
<1> HIDE DEF n
<1> QED
  BY <1>1, <1>2, <1>3, SplitOnce

-----------------------------------------------------------------------------
(* The UNDI never goes back to an earlier state.                           *)

Forward ==
  /\ State = "INITIALIZED" => State' = "INITIALIZED"
  /\ State # "STOPPED" => State' # "STOPPED"
  /\ addr \in Undi!Addresses /\ hwAddr \in Undi!Addresses =>
       addr' \in Undi!Addresses /\ hwAddr' \in Undi!Addresses

LEMMA Idling == UNCHANGED undiVars => Forward
BY DEF undiVars, Forward

LEMMA Starting ==
  ASSUME Undi!UndiStart, cdb'.StatCode # "INVALID_CDB"
  PROVE  Forward /\ Succeeded /\ State' # "STOPPED"
BY DEF Undi!UndiStart, Undi!Reply, Undi!Refuse, Undi!Answer, Undi!hwVars, Undi!swVars, Forward, Succeeded

LEMMA Asking ==
  ASSUME NEW op, Undi!UndiNoEffect(op) \/ Undi!WrongState(op)
  PROVE  Forward /\ (Undi!StateAllows(op) => Succeeded)
BY DEF Undi!UndiNoEffect, Undi!WrongState, Undi!Reply, Undi!Refuse, Undi!Answer, Undi!hwVars, Undi!swVars,
       Forward, Succeeded

LEMMA Refused ==
  ASSUME NEW op, Undi!UndiBusy(op) \/ Undi!WrongState(op) \/ Undi!BadCdb(op)
  PROVE  Forward /\ ~Succeeded
BY DEF Undi!UndiBusy, Undi!WrongState, Undi!BadCdb, Undi!Reply, Undi!Refuse, Undi!Answer, Undi!hwVars,
       Undi!swVars, Forward, Succeeded

LEMMA InitializingUndi ==
  ASSUME NEW detect, Undi!UndiInitialize(detect)
  PROVE  Forward /\ (Succeeded => State' = "INITIALIZED")
<1>1. CASE State = "INITIALIZED"
  BY <1>1 DEF Undi!UndiInitialize, Undi!hwVars, Undi!swVars, Forward
<1>2. CASE State # "INITIALIZED"
  <2>1. PICK ok \in BOOLEAN :
          /\ Undi!Inititialize("Initialize", ok)
          /\ IF detect
             THEN /\ State' = "STARTED"
                  /\ Undi!Reply("Initialize", IF ok THEN "COMPLETE_NO_MEDIA" ELSE "FAILED_NO_MEDIA",
                                "NOT_STARTED", TRUE)
             ELSE /\ State' = IF ok THEN "INITIALIZED" ELSE State
                  /\ Undi!Reply("Initialize", "COMPLETE", IF ok THEN "SUCCESS" ELSE "NOT_STARTED", TRUE)
          /\ hwAddr' = hwAddr
    BY <1>2 DEF Undi!UndiInitialize
  <2>2. Forward
    BY <1>2, <2>1 DEF Undi!Inititialize, Forward
  <2>3. Succeeded => State' = "INITIALIZED"
    BY <2>1 DEF Undi!Reply, Undi!Answer, Succeeded
  <2> QED
    BY <2>2, <2>3
<1> QED
  BY <1>1, <1>2

LEMMA Commanding ==
  ASSUME \/ \E a \in Undi!Addresses : Undi!UndiStnAddr(a)
         \/ Undi!UndiRecFilter \/ Undi!UndiStatus \/ Undi!UndiTransmit \/ Undi!UndiReceive
         \/ Undi!StopDriver \/ Undi!AppUsesDevice \/ Undi!StartDriver \/ Undi!StartDriverFinish
         \/ Undi!StartDriverInit
  PROVE  Forward
BY DEF Undi!UndiStnAddr, Undi!UndiRecFilter, Undi!UndiStatus, Undi!UndiTransmit, Undi!UndiReceive,
       Undi!StopDriver, Undi!AppUsesDevice, Undi!StartDriver, Undi!StartDriverFinish, Undi!StartDriverInit,
       Undi!Inititialize, Undi!hwVars, Undi!swVars, Forward

-----------------------------------------------------------------------------
(* Calls begin, and go on.                                                 *)

LEMMA PendingReady ==
  ASSUME IInv, NEW c \in Pending
  PROVE  Ready(c) /\ WellFormed(c)
<1>1. CASE call # Idle
  BY <1>1 DEF Pending, IInv, CallsFollow, Typed
<1>2. CASE call = Idle
  <2>1. c \in Requests /\ ResourcesMatchState
    BY <1>2 DEF Pending, IInv, CallsFollow
  <2>2. ASSUME NEW name, NEW todo, c = Simple(name, todo)
        PROVE  c.name = name /\ c.todo = todo /\ WellFormed(c)
    BY <2>2 DEF Simple, Call, WellFormed, Undi!Addresses
  <2>3. CASE snp = NoSnp
    BY <2>1, <2>2, <2>3 DEF Requests, SimpleNetworkDriverStart, Ready, Binding
  <2>4. CASE snp # NoSnp /\ c \in SimpleNetworkDriverStop
    BY <2>2, <2>4 DEF SimpleNetworkDriverStop, Ready, Undoing
  <2>5. CASE snp # NoSnp /\ c \notin SimpleNetworkDriverStop
    <3>1. snp.State \in {"Stopped", "Started", "Initialized"}
      BY <2>5 DEF IInv, Typed, SnpRecords
    <3>2. CASE snp.State = "Stopped"
      <4>1. c \in SnpUndi32Start /\ Clean /\ InState("Stopped")
        BY <1>2, <2>1, <2>5, <3>2 DEF Requests, ResourcesMatchState, Clean, InState
      <4> QED
        BY <2>2, <4>1 DEF SnpUndi32Start, Ready
    <3>3. CASE snp.State = "Started"
      <4>1. c \in SnpUndi32Stop \cup SnpUndi32Initialize /\ Clean /\ InState("Started")
        BY <1>2, <2>1, <2>5, <3>3 DEF Requests, ResourcesMatchState, Clean, InState
      <4> QED
        BY <2>2, <4>1 DEF SnpUndi32Stop, SnpUndi32Initialize, Ready, Initializing
    <3>4. CASE snp.State = "Initialized"
      <4>1. /\ c \in SnpUndi32Shutdown \cup SnpUndi32Reset \cup SnpUndi32ReceiveFilters
                   \cup SnpUndi32StationAddress \cup SnpUndi32GetStatus
                   \cup SnpUndi32Transmit \cup SnpUndi32Receive
            /\ Holding /\ InState("Initialized")
        BY <1>2, <2>1, <2>5, <3>4 DEF Requests, ResourcesMatchState, Holding, Size, InState
      <4> DEFINE Todos == Seq(PlainSteps) \ {<<>>}
      <4>t. /\ <<"PxeReset">> \in Todos /\ <<"PxeRecvFilter", "PxeRecvFilterRead">> \in Todos
            /\ <<"PxeRecvFilter", "PxeRecvFilter", "PxeRecvFilterRead">> \in Todos
            /\ <<"PxeSetStnAddr", "PxeGetStnAddr">> \in Todos /\ <<"PxeGetStatus">> \in Todos
            /\ <<"PxeReceive">> \in Todos
        BY DEF PlainSteps
      <4> HIDE DEF Todos
      <4>2. CASE c \in SnpUndi32Shutdown
        BY <2>2, <4>1, <4>2 DEF SnpUndi32Shutdown, Ready
      <4>3. ASSUME c.name \in Plain, WellFormed(c),
                   IF c.name = "Transmit" THEN c.todo \in Transmitting /\ c.buf \in Buffers \ given
                                          ELSE c.todo \in Todos
            PROVE  Ready(c) /\ WellFormed(c)
        BY <4>1, <4>3 DEF Ready, Todos
      <4>4. CASE c \in SnpUndi32Reset \cup SnpUndi32ReceiveFilters \cup SnpUndi32GetStatus
                       \cup SnpUndi32Receive
        <5>1. PICK name \in Plain \ {"Transmit"}, todo \in Todos : c = Simple(name, todo)
          BY <4>4, <4>t DEF SnpUndi32Reset, SnpUndi32ReceiveFilters, SnpUndi32GetStatus, Recycling,
                            SnpUndi32Receive, Plain
        <5> QED
          BY <2>2, <4>3, <5>1
      <4>5. CASE c \in SnpUndi32StationAddress
        <5>1. PICK a \in Undi!Addresses :
                c = Call("StationAddress", <<"PxeSetStnAddr", "PxeGetStnAddr">>, NoBuf, a)
          BY <4>5 DEF SnpUndi32StationAddress
        <5>2. WellFormed(c) /\ c.name = "StationAddress" /\ c.todo = <<"PxeSetStnAddr", "PxeGetStnAddr">>
          BY <5>1 DEF Call, WellFormed
        <5> QED
          BY <4>3, <4>t, <5>2 DEF Plain
      <4>6. CASE c \in SnpUndi32Transmit
        <5>1. PICK b \in Buffers \ given, todo \in Transmitting :
                c = Call("Transmit", todo, b, "perm")
          BY <4>6 DEF SnpUndi32Transmit, Transmitting
        <5>2. WellFormed(c) /\ c.name = "Transmit" /\ c.todo = todo /\ c.buf = b
          BY <5>1 DEF Call, WellFormed, Undi!Addresses
        <5> QED
          BY <4>3, <5>1, <5>2 DEF Plain
      <4> QED
        BY <4>1, <4>2, <4>4, <4>5, <4>6
    <3> QED
      BY <3>1, <3>2, <3>3, <3>4
  <2> QED
    BY <2>3, <2>4, <2>5
<1> QED
  BY <1>1, <1>2

LEMMA Continued ==
  ASSUME NEW c, NEW todo, WellFormed(c), c.name # "none",
         call' = IF todo = <<>> THEN Idle ELSE [c EXCEPT !.todo = todo]
  PROVE  /\ WellFormed(call')
         /\ todo = <<>> => call' = Idle
         /\ todo # <<>> => /\ call' # Idle /\ call'.name = c.name /\ call'.todo = todo
                           /\ call'.buf = c.buf
BY DEF WellFormed, Idle, Simple, Call, Undi!Addresses

(* One command, one action.                                                *)
LEMMA DoStep ==
  ASSUME NEW c, Do(c)
  PROVE  /\ Head(c.todo) = "PxeStart" => PxeStart(c)
         /\ Head(c.todo) = "PxeStop" => PxeStop(c)
         /\ Head(c.todo) = "PxeShutdown" => PxeShutdown(c)
         /\ Head(c.todo) = "GetInitInfo" => GetInitInfo(c)
         /\ Head(c.todo) = "PxeReset" => PxeReset(c)
         /\ Head(c.todo) = "PxeFillHeader" => PxeFillHeader(c)
         /\ Head(c.todo) = "PxeInit" => PxeInit(c, "PxeInit", FALSE)
         /\ Head(c.todo) = "PxeInitDetect" => PxeInit(c, "PxeInitDetect", TRUE)
         /\ Head(c.todo) = "Install" => Install(c)
         /\ Head(c.todo) = "Delete" => Delete(c)
         /\ Head(c.todo) = "PxeSetStnAddr" => PxeSetStnAddr(c)
         /\ Head(c.todo) = "PxeGetStnAddr" => PxeGetStnAddr(c)
         /\ Head(c.todo) = "PxeRecvFilter" => PxeRecvFilter(c, "PxeRecvFilter")
         /\ Head(c.todo) = "PxeRecvFilterRead" => PxeRecvFilter(c, "PxeRecvFilterRead")
         /\ Head(c.todo) = "PxeGetStatus" => PxeGetStatus(c)
         /\ Head(c.todo) = "PxeTransmit" => PxeTransmit(c)
         /\ Head(c.todo) = "PxeReceive" => PxeReceive(c)
<1>1. /\ PxeStart(c) => Head(c.todo) = "PxeStart"
      /\ PxeStop(c) => Head(c.todo) = "PxeStop"
      /\ PxeShutdown(c) => Head(c.todo) = "PxeShutdown"
      /\ GetInitInfo(c) => Head(c.todo) = "GetInitInfo"
      /\ PxeReset(c) => Head(c.todo) = "PxeReset"
      /\ PxeFillHeader(c) => Head(c.todo) = "PxeFillHeader"
  BY DEF PxeStart, PxeStop, PxeShutdown, GetInitInfo, PxeReset, PxeFillHeader, Ask
<1>2. /\ PxeInit(c, "PxeInit", FALSE) => Head(c.todo) = "PxeInit"
      /\ PxeInit(c, "PxeInitDetect", TRUE) => Head(c.todo) = "PxeInitDetect"
      /\ Install(c) => Head(c.todo) = "Install"
      /\ Delete(c) => Head(c.todo) = "Delete"
      /\ PxeSetStnAddr(c) => Head(c.todo) = "PxeSetStnAddr"
      /\ PxeGetStnAddr(c) => Head(c.todo) = "PxeGetStnAddr"
  BY DEF PxeInit, Install, Delete, PxeSetStnAddr, PxeGetStnAddr
<1>3. /\ PxeRecvFilter(c, "PxeRecvFilter") => Head(c.todo) = "PxeRecvFilter"
      /\ PxeRecvFilter(c, "PxeRecvFilterRead") => Head(c.todo) = "PxeRecvFilterRead"
      /\ PxeGetStatus(c) => Head(c.todo) = "PxeGetStatus"
      /\ PxeTransmit(c) => Head(c.todo) = "PxeTransmit"
      /\ PxeReceive(c) => Head(c.todo) = "PxeReceive"
  BY DEF PxeRecvFilter, PxeGetStatus, PxeTransmit, PxeReceive
<1> QED
  BY <1>1, <1>2, <1>3 DEF Do

-----------------------------------------------------------------------------
(* What a step leaves behind.                                              *)

LEMMA SnpThere == snp' \in SnpRecords => snp' # NoSnp
BY NoSnpAssumption

(* The buffers stay where they are.                                        *)
LEMMA QuietKeeps ==
  ASSUME Typed, HeldOnce, Forward, UNCHANGED <<queue, nsent, given>>, binds' \in Nat, WellFormed(call'),
         snp # NoSnp, snp' \in SnpRecords, snp'.RecycledTxBuf = snp.RecycledTxBuf,
         snp'.MaxRecycledTxBuf = snp.MaxRecycledTxBuf
  PROVE  Typed' /\ HeldOnce'
<1>1. Typed'
  BY DEF Typed, Forward
<1>2. Recycled' = Recycled
  BY SnpThere DEF Recycled
<1> QED
  BY <1>1, <1>2 DEF HeldOnce

(* The SNP's state does not change, or follows the UNDI's.                 *)
LEMMA StateKept ==
  ASSUME SnpMatchesUndi, Forward,
         \/ snp' = NoSnp
         \/ snp # NoSnp /\ snp'.State = snp.State
         \/ snp'.State = "Stopped"
         \/ snp'.State = "Started" /\ State' # "STOPPED"
         \/ snp'.State = "Initialized" /\ State' = "INITIALIZED"
  PROVE  SnpMatchesUndi'
BY DEF SnpMatchesUndi, Forward

LEMMA Allowed == ASSUME NEW op, State = "INITIALIZED" PROVE Undi!StateAllows(op)
BY DEF Undi!StateAllows

LEMMA ContinuedWith ==
  ASSUME NEW c, NEW ok, Continue(c, ok)
  PROVE  \E todo \in {OnSuccess(c), OnError(c)} :
           call' = IF todo = <<>> THEN Idle ELSE [c EXCEPT !.todo = todo]
BY DEF Continue

-----------------------------------------------------------------------------
(* The calls of an initialised SNP.                                        *)

SameHeld ==
  /\ snp' \in SnpRecords
  /\ snp'.State = snp.State /\ snp'.events = snp.events /\ snp'.buffers = snp.buffers
  /\ snp'.wanted = snp.wanted

IsPlain(c) == c.name \in Plain /\ Ready(c) /\ WellFormed(c)

LEMMA PlainNext ==
  ASSUME NEW c, IsPlain(c)
  PROVE  /\ InState("Initialized") /\ Holding
         /\ c.name = "Transmit" =>
              /\ c.buf \in Buffers \ given
              /\ \/ Head(c.todo) = "PxeFillHeader" /\ Tail(c.todo) = <<"PxeTransmit">>
                 \/ Head(c.todo) = "PxeTransmit" /\ Tail(c.todo) = <<>>
         /\ c.name # "Transmit" => Head(c.todo) \in PlainSteps /\ Tail(c.todo) \in Seq(PlainSteps)
         /\ OnError(c) = <<>> /\ OnSuccess(c) = Tail(c.todo)
<1>1. /\ InState("Initialized") /\ Holding
      /\ IF c.name = "Transmit"
         THEN c.todo \in Transmitting /\ c.buf \in Buffers \ given
         ELSE c.todo \in Seq(PlainSteps) \ {<<>>}
  BY DEF IsPlain, Ready, Plain
<1>2. c.name # "Transmit" => Head(c.todo) \in PlainSteps /\ Tail(c.todo) \in Seq(PlainSteps)
  BY <1>1, PlainTail
<1>3. c.name = "Transmit" =>
        \/ Head(c.todo) = "PxeFillHeader" /\ Tail(c.todo) = <<"PxeTransmit">>
        \/ Head(c.todo) = "PxeTransmit" /\ Tail(c.todo) = <<>>
  <2>1. CASE c.todo = <<"PxeFillHeader", "PxeTransmit">>
    BY <2>1
  <2>2. CASE c.todo = <<"PxeTransmit">>
    BY <2>2
  <2> QED
    BY <1>1, <2>1, <2>2 DEF Transmitting
<1>4. c.name \notin {"Bind", "Unbind"} /\ Head(c.todo) # "PxeInitDetect"
  BY <1>2, <1>3 DEF IsPlain, Plain, PlainSteps
<1>5. OnError(c) = <<>> /\ OnSuccess(c) = Tail(c.todo)
  BY <1>4 DEF OnError, OnSuccess
<1> QED
  BY <1>1, <1>2, <1>3, <1>5

LEMMA PlainGoesOn ==
  ASSUME NEW c, IsPlain(c), NEW ok, Continue(c, ok), SameHeld,
         UNCHANGED given \/ Head(c.todo) # "PxeFillHeader"
  PROVE  CallsFollow' /\ WellFormed(call')
<1>1. PICK todo \in {OnSuccess(c), OnError(c)} :
        call' = IF todo = <<>> THEN Idle ELSE [c EXCEPT !.todo = todo]
  BY ContinuedWith
<1>2. todo \in {<<>>, Tail(c.todo)}
  <2>1. OnError(c) = <<>> /\ OnSuccess(c) = Tail(c.todo)
    BY PlainNext
  <2> QED
    BY <2>1
<1>3. c.name # "none" /\ WellFormed(c) /\ c.name \in Plain
  BY DEF IsPlain, Plain
<1>4. /\ WellFormed(call')
      /\ todo = <<>> => call' = Idle
      /\ todo # <<>> => /\ call' # Idle /\ call'.name = c.name /\ call'.todo = todo
                        /\ call'.buf = c.buf
  BY <1>1, <1>3, Continued
<1>5. /\ snp' # NoSnp /\ snp'.State = "Initialized" /\ snp'.events = 1
      /\ snp'.buffers = IF snp'.wanted THEN 1 ELSE 0
  BY PlainNext, SnpThere DEF SameHeld, InState, Holding, Size
<1>6. CASE todo = <<>>
  BY <1>4, <1>5, <1>6 DEF CallsFollow, ResourcesMatchState, Idle
<1>7. CASE todo # <<>>
  <2>1. InState("Initialized")' /\ Holding'
    BY <1>5 DEF InState, Holding, Size
  <2>2. CASE c.name # "Transmit"
    <3>1. Tail(c.todo) \in Seq(PlainSteps)
      BY <2>2, PlainNext
    <3>2. todo \in Seq(PlainSteps) \ {<<>>}
      BY <1>2, <1>7, <3>1
    <3> QED
      BY <1>3, <1>4, <1>7, <2>1, <2>2, <3>2 DEF CallsFollow, Ready
  <2>3. CASE c.name = "Transmit"
    <3>1. /\ c.buf \in Buffers \ given
          /\ \/ Head(c.todo) = "PxeFillHeader" /\ Tail(c.todo) = <<"PxeTransmit">>
             \/ Tail(c.todo) = <<>>
      BY <2>3, PlainNext
    <3>2. todo = <<"PxeTransmit">> /\ UNCHANGED given
      BY <1>2, <1>7, <3>1
    <3>3. todo \in Transmitting
      BY <3>2 DEF Transmitting
    <3> QED
      BY <1>3, <1>4, <1>7, <2>1, <2>3, <3>1, <3>2, <3>3 DEF CallsFollow, Ready
  <2> QED
    BY <2>2, <2>3
<1> QED
  BY <1>4, <1>6, <1>7

(* The steps that leave the transmit buffers alone.                        *)
LEMMA PlainQuiet ==
  ASSUME IInv, NEW c, IsPlain(c), Do(c), Head(c.todo) \notin {"PxeGetStatus", "PxeTransmit"}
  PROVE  IInv'
<1>1. /\ snp # NoSnp /\ snp \in SnpRecords /\ addr \in {"perm", "set"}
      /\ c.addr \in Undi!Addresses /\ addr \in Undi!Addresses
  BY PlainNext DEF InState, IInv, Typed, Undi!Addresses, IsPlain, WellFormed
<1>2. ASSUME NEW ok, Continue(c, ok), Forward, SameHeld, UNCHANGED <<queue, nsent, given, binds>>,
             snp'.RecycledTxBuf = snp.RecycledTxBuf, snp'.MaxRecycledTxBuf = snp.MaxRecycledTxBuf
      PROVE  IInv'
  <2>1. CallsFollow' /\ WellFormed(call')
    BY <1>2, PlainGoesOn
  <2>2. Typed' /\ HeldOnce'
    BY <1>1, <1>2, <2>1, QuietKeeps DEF IInv, Typed, SameHeld
  <2>3. SnpMatchesUndi'
    BY <1>1, <1>2, StateKept DEF IInv, SameHeld
  <2> QED
    BY <2>1, <2>2, <2>3 DEF IInv
<1>3. CASE Head(c.todo) \in {"PxeReset", "PxeFillHeader"}
  <2>1. PICK step, op : Ask(c, step, op) /\ UNCHANGED snp
    BY <1>3, DoStep DEF PxeReset, PxeFillHeader
  <2>2. Forward /\ Continue(c, Succeeded) /\ UNCHANGED <<queue, nsent, given, binds>>
    BY <2>1, Asking DEF Ask, NoTraffic
  <2> QED
    BY <1>1, <1>2, <2>1, <2>2 DEF SameHeld
<1>4. CASE Head(c.todo) = "PxeSetStnAddr"
  <2>1. PxeSetStnAddr(c)
    BY <1>4, DoStep
  <2>2. Forward
    BY <1>1, <2>1, Commanding, Refused DEF PxeSetStnAddr
  <2> QED
    BY <1>1, <1>2, <2>1, <2>2 DEF SameHeld, PxeSetStnAddr, NoTraffic
<1>5. CASE Head(c.todo) = "PxeGetStnAddr"
  <2>1. PxeGetStnAddr(c)
    BY <1>5, DoStep
  <2>2. Forward
    BY <1>1, <2>1, Commanding, Refused DEF PxeGetStnAddr
  <2>3. \/ snp' = snp
        \/ snp' = [snp EXCEPT !.CurrentAddress = addr, !.MediaPresent = @ /\ c.name # "Bind"]
    BY <2>1 DEF PxeGetStnAddr
  <2>4. /\ SameHeld /\ snp'.RecycledTxBuf = snp.RecycledTxBuf
        /\ snp'.MaxRecycledTxBuf = snp.MaxRecycledTxBuf
    BY <1>1, <2>3 DEF SameHeld, SnpRecords
  <2> QED
    BY <1>2, <2>1, <2>2, <2>4 DEF PxeGetStnAddr, NoTraffic
<1>6. CASE Head(c.todo) \in {"PxeRecvFilter", "PxeRecvFilterRead"}
  <2>1. PICK step : PxeRecvFilter(c, step)
    BY <1>6, DoStep
  <2>2. Forward
    BY <2>1, Commanding, Refused DEF PxeRecvFilter
  <2>3. snp' = snp \/ snp' = [snp EXCEPT !.filter = TRUE]
    BY <2>1 DEF PxeRecvFilter
  <2>4. /\ SameHeld /\ snp'.RecycledTxBuf = snp.RecycledTxBuf
        /\ snp'.MaxRecycledTxBuf = snp.MaxRecycledTxBuf
    BY <1>1, <2>3 DEF SameHeld, SnpRecords
  <2> QED
    BY <1>2, <2>1, <2>2, <2>4 DEF PxeRecvFilter, NoTraffic
<1>7. CASE Head(c.todo) = "PxeReceive"
  <2>1. PxeReceive(c)
    BY <1>7, DoStep
  <2>2. Forward
    BY <2>1, Commanding, Refused DEF PxeReceive
  <2>3. PICK m \in BOOLEAN : snp' = [snp EXCEPT !.MediaPresent = m]
    <3>1. snp' = [snp EXCEPT !.MediaPresent = snp.MediaPresent \/ Succeeded]
      BY <2>1 DEF PxeReceive
    <3>2. CASE Succeeded
      <4>1. snp' = [snp EXCEPT !.MediaPresent = TRUE]
        BY <3>1, <3>2
      <4> QED
        BY <4>1
    <3>3. CASE ~Succeeded
      <4>1. snp' = [snp EXCEPT !.MediaPresent = snp.MediaPresent] /\ snp.MediaPresent \in BOOLEAN
        BY <1>1, <3>1, <3>3 DEF SnpRecords
      <4> QED
        BY <4>1
    <3> QED
      BY <3>2, <3>3
  <2>4. /\ SameHeld /\ snp'.RecycledTxBuf = snp.RecycledTxBuf
        /\ snp'.MaxRecycledTxBuf = snp.MaxRecycledTxBuf
    BY <1>1, <2>3 DEF SameHeld, SnpRecords
  <2> QED
    BY <1>2, <2>1, <2>2, <2>4 DEF PxeReceive
<1> QED
  <2>1. c.name # "Transmit" => Head(c.todo) \in PlainSteps
    BY PlainNext
  <2>2. c.name = "Transmit" => Head(c.todo) = "PxeFillHeader"
    BY PlainNext
  <2> QED
    BY <1>3, <1>4, <1>5, <1>6, <1>7, <2>1, <2>2 DEF PlainSteps

(* A buffer accepted by the UNDI is in its ring, and nowhere else.         *)
LEMMA TransmitKeeps ==
  ASSUME IInv, NEW c, IsPlain(c), Do(c), Head(c.todo) = "PxeTransmit"
  PROVE  IInv'
<1>1. PxeTransmit(c) /\ UNCHANGED <<snp, binds>> /\ Continue(c, Succeeded)
  BY DoStep DEF PxeTransmit
<1>2. Forward
  BY <1>1, Commanding, Refused DEF PxeTransmit
<1>3. snp # NoSnp /\ snp \in SnpRecords /\ SameHeld
  BY <1>1, PlainNext DEF InState, IInv, Typed, SameHeld
<1>4. SnpMatchesUndi'
  BY <1>1, <1>2, <1>3, StateKept DEF IInv
<1>5. CASE UNCHANGED <<queue, nsent, given>>
  <2>1. CallsFollow' /\ WellFormed(call')
    BY <1>1, <1>3, <1>5, PlainGoesOn
  <2>2. Typed' /\ HeldOnce'
    BY <1>1, <1>2, <1>3, <1>5, <2>1, QuietKeeps DEF IInv, Typed
  <2> QED
    BY <1>4, <2>1, <2>2 DEF IInv
<1>6. CASE Tx!Accept(c.buf) /\ given' = given \cup {c.buf}
  <2>1. Recycled' = Recycled
    BY <1>1 DEF Recycled
  <2>2. c.buf \in Buffers \ given
    BY PlainNext DEF PlainSteps
  <2>3. CallsFollow' /\ WellFormed(call')
    BY <1>1, <1>3, PlainGoesOn
  <2>4. /\ queue' = Append(queue, c.buf) /\ nsent' = nsent
        /\ queue \in Seq(Buffers) /\ IsInjective(queue) /\ c.buf \notin ToSet(queue)
    BY <1>6, <2>2 DEF Tx!Accept, IInv, Typed, HeldOnce
  <2>5. /\ queue' \in Seq(Buffers) /\ Len(queue') = Len(queue) + 1
        /\ IsInjective(queue') /\ ToSet(queue') = ToSet(queue) \cup {c.buf}
    BY <2>2, <2>4, AppendOnce
  <2>6. HeldOnce'
    BY <1>6, <2>1, <2>2, <2>5 DEF HeldOnce, IInv
  <2>7. Typed'
    BY <1>1, <1>2, <2>3, <2>4, <2>5 DEF Typed, IInv, Forward
  <2> QED
    BY <1>4, <2>3, <2>6, <2>7 DEF IInv
<1> QED
  BY <1>1, <1>5, <1>6 DEF PxeTransmit

(* GetStatus moves buffers from the ring to the array and from there to    *)
(* the stack, and drops none: the block takes what the UNDI returns, and   *)
(* the array takes a whole block when it is empty.                         *)
LEMMA StatusMoves ==
  ASSUME Typed, HeldOnce, NEW c, PxeGetStatus(c), snp # NoSnp
  PROVE  /\ Forward /\ SameHeld /\ (\E ok : Continue(c, ok)) /\ UNCHANGED binds
         /\ snp'.MaxRecycledTxBuf >= MaxXmit
         /\ queue' \in Seq(Buffers) /\ nsent' \in Nat /\ nsent' <= Len(queue')
         /\ HeldOnce'
<1> DEFINE R == snp.RecycledTxBuf
           k == snp.MaxRecycledTxBuf
<1>1. /\ snp \in SnpRecords /\ R \in Seq(Buffers) /\ k \in Nat /\ k >= MaxXmit
      /\ MaxXmit \in Nat \ {0}
      /\ queue \in Seq(Buffers) /\ nsent \in Nat /\ nsent <= Len(queue) /\ Recycled = R
      /\ Len(queue) \in Nat /\ Len(R) \in Nat
  BY SnpAssumption DEF Typed, SnpRecords, Recycled
<1>2. Forward
  BY Commanding, Refused DEF PxeGetStatus
<1>3. PICK n \in Nat :
        /\ n <= nsent /\ n <= MaxXmit
        /\ n # 0 => c.name = "Recycle" /\ R = <<>>
        /\ Tx!Return(n)
        /\ \E grown \in Growths(SubSeq(queue, 1, EntriesRead(n))), media \in BOOLEAN :
             LET kept  == Stored(SubSeq(queue, 1, EntriesRead(n)), grown)
                 ok    == Succeeded /\ Len(kept) = Len(snp.RecycledTxBuf)
                                                     + Len(SubSeq(queue, 1, EntriesRead(n)))
                 taken == c.name = "Recycle" /\ kept # <<>>
             IN  /\ snp' = [snp EXCEPT !.RecycledTxBuf = IF taken THEN Front(kept) ELSE kept,
                                       !.MaxRecycledTxBuf = @ + grown,
                                       !.MediaPresent = IF ok THEN media ELSE @]
                 /\ given' = IF taken THEN given \ {Last(kept)} ELSE given
                 /\ Continue(c, ok)
  <2> DEFINE n == IF Succeeded /\ AskForBuffers(c) THEN Completed ELSE 0
  <2>1. n \in Nat /\ n <= nsent /\ n <= MaxXmit
    BY <1>1 DEF Completed, Smaller
  <2>2. n # 0 => c.name = "Recycle" /\ R = <<>>
    BY DEF AskForBuffers
  <2> QED
    BY <2>1, <2>2 DEF PxeGetStatus
<1>4. EntriesRead(n) = n
  BY <1>1, <1>3 DEF EntriesRead, Smaller
<1> DEFINE got == SubSeq(queue, 1, n)
<1>5. PICK grown \in Growths(got), media \in BOOLEAN :
        LET kept  == Stored(got, grown)
            ok    == Succeeded /\ Len(kept) = Len(snp.RecycledTxBuf) + Len(got)
            taken == c.name = "Recycle" /\ kept # <<>>
        IN  /\ snp' = [snp EXCEPT !.RecycledTxBuf = IF taken THEN Front(kept) ELSE kept,
                                  !.MaxRecycledTxBuf = @ + grown,
                                  !.MediaPresent = IF ok THEN media ELSE @]
            /\ given' = IF taken THEN given \ {Last(kept)} ELSE given
            /\ Continue(c, ok)
  BY <1>3, <1>4
<1>6. grown \in Nat
  <2> HIDE DEF got
  <2>1. grown \in {0, MaxXmit}
    BY Zenon DEF Growths
  <2> QED
    BY <1>1, <2>1
<1>7. /\ got \in Seq(Buffers) /\ Len(got) = n /\ IsInjective(got)
      /\ queue' = SubSeq(queue, n + 1, Len(queue)) /\ nsent' = nsent - n
      /\ queue' \in Seq(Buffers) /\ Len(queue') = Len(queue) - n /\ IsInjective(queue')
      /\ ToSet(got) \cap ToSet(queue') = {} /\ ToSet(got) \cup ToSet(queue') = ToSet(queue)
  <2>1. queue' = SubSeq(queue, n + 1, Len(queue)) /\ nsent' = nsent - n
    BY <1>3 DEF Tx!Return
  <2>2. n <= Len(queue) /\ IsInjective(queue)
    BY <1>1, <1>3 DEF HeldOnce
  <2> QED
    BY <1>1, <2>1, <2>2, SplitOnce
<1> HIDE DEF got
<1>8. Stored(got, grown) = IF n = 0 THEN R ELSE got
  <2>1. CASE n = 0
    <3>1. got = <<>>
      BY <1>7, <2>1, EmptySeq
    <3>2. Smaller(Len(got), snp.MaxRecycledTxBuf + grown - Len(snp.RecycledTxBuf)) \in Int
          /\ Smaller(Len(got), snp.MaxRecycledTxBuf + grown - Len(snp.RecycledTxBuf)) < 1
      BY <1>1, <1>6, <1>7, <2>1 DEF Smaller
    <3>3. SubSeq(got, 1, Smaller(Len(got), snp.MaxRecycledTxBuf + grown - Len(snp.RecycledTxBuf))) = <<>>
      BY <3>2, SubSeqEmpty
    <3>4. R \o <<>> = R
      BY <1>1
    <3> QED
      BY <2>1, <3>3, <3>4 DEF Stored
  <2>2. CASE n # 0
    <3>1. R = <<>>
      BY <1>3, <2>2
    <3>2. Len(R) = 0
      BY <3>1
    <3>3. Smaller(Len(got), snp.MaxRecycledTxBuf + grown - Len(snp.RecycledTxBuf)) = Len(got)
      BY <1>1, <1>3, <1>6, <1>7, <3>2 DEF Smaller
    <3>4. SubSeq(got, 1, Len(got)) = got
      BY <1>7
    <3>5. <<>> \o got = got
      BY <1>7
    <3> QED
      BY <2>2, <3>1, <3>3, <3>4, <3>5 DEF Stored
  <2> QED
    BY <2>1, <2>2
<1> DEFINE kept == IF n = 0 THEN R ELSE got
<1>9. PICK t \in BOOLEAN, m \in BOOLEAN :
        /\ t = (c.name = "Recycle" /\ kept # <<>>)
        /\ snp' = [snp EXCEPT !.RecycledTxBuf = IF t THEN Front(kept) ELSE kept,
                              !.MaxRecycledTxBuf = @ + grown, !.MediaPresent = m]
        /\ given' = IF t THEN given \ {Last(kept)} ELSE given
        /\ \E ok : Continue(c, ok)
  <2> DEFINE ok == Succeeded /\ Len(kept) = Len(snp.RecycledTxBuf) + Len(got)
             taken == c.name = "Recycle" /\ kept # <<>>
  <2>1. /\ snp' = [snp EXCEPT !.RecycledTxBuf = IF taken THEN Front(kept) ELSE kept,
                              !.MaxRecycledTxBuf = @ + grown, !.MediaPresent = IF ok THEN media ELSE @]
        /\ given' = IF taken THEN given \ {Last(kept)} ELSE given
        /\ Continue(c, ok)
    <3> HIDE DEF kept
    <3>1. Stored(got, grown) = kept
      BY <1>8 DEF kept
    <3> QED
      BY <1>5, <3>1, Zenon
  <2>2. (IF ok THEN media ELSE snp.MediaPresent) \in BOOLEAN
    BY <1>1 DEF SnpRecords
  <2>3. taken \in BOOLEAN
    OBVIOUS
  <2> HIDE DEF ok, taken, kept
  <2> QED
    BY <2>1, <2>2, <2>3, Zenon DEF taken
<1>10. /\ kept \in Seq(Buffers) /\ IsInjective(kept) /\ ToSet(kept) \cap ToSet(queue') = {}
       /\ given = ToSet(kept) \cup ToSet(queue')
  <2>1. CASE n = 0
    <3>1. got = <<>>
      BY <1>7, <2>1, EmptySeq
    <3>2. ToSet(got) = {}
      BY <3>1 DEF ToSet
    <3> QED
      BY <1>1, <1>7, <2>1, <3>2 DEF HeldOnce
  <2>2. CASE n # 0
    <3>1. ToSet(R) = {}
      BY <1>3, <2>2 DEF ToSet
    <3> QED
      BY <1>1, <1>7, <2>2, <3>1 DEF HeldOnce
  <2> QED
    BY <2>1, <2>2
<1> HIDE DEF kept
<1> DEFINE new == IF t THEN Front(kept) ELSE kept
<1>11. /\ new \in Seq(Buffers) /\ IsInjective(new) /\ ToSet(new) \subseteq ToSet(kept)
       /\ given' = ToSet(new) \cup ToSet(queue')
  <2>1. CASE t
    <3>1. kept # <<>>
      BY <1>9, <2>1
    <3>2. /\ Front(kept) \in Seq(Buffers) /\ IsInjective(Front(kept))
          /\ ToSet(Front(kept)) = ToSet(kept) \ {Last(kept)}
      BY <1>10, <3>1, FrontOnce
    <3>3. Last(kept) \in ToSet(kept)
      <4>1. Len(kept) \in 1 .. Len(kept)
        BY <1>10, <3>1, EmptySeq
      <4> QED
        BY <1>10, <4>1, Elements DEF Last
    <3> QED
      BY <1>9, <1>10, <2>1, <3>2, <3>3
  <2>2. CASE ~t
    BY <1>9, <1>10, <2>2
  <2> QED
    BY <2>1, <2>2
<1>12. snp' = [snp EXCEPT !.RecycledTxBuf = new, !.MaxRecycledTxBuf = k + grown, !.MediaPresent = m]
  BY <1>9
<1> HIDE DEF new
<1>13. /\ SameHeld /\ snp'.RecycledTxBuf = new /\ snp'.MaxRecycledTxBuf = k + grown
  <2>1. PICK size \in Nat : size = k + grown
    BY <1>1, <1>6
  <2>2. snp' = [snp EXCEPT !.RecycledTxBuf = new, !.MaxRecycledTxBuf = size, !.MediaPresent = m]
    BY <1>12, <2>1
  <2>3. snp \in SnpRecords /\ new \in Seq(Buffers) /\ m \in BOOLEAN
    BY <1>1, <1>11
  <2>4. snp' \in SnpRecords /\ snp'.RecycledTxBuf = new /\ snp'.MaxRecycledTxBuf = size
    <3> HIDE DEF k
    <3> QED
      BY <2>2, <2>3 DEF SnpRecords
  <2>5. /\ snp'.State = snp.State /\ snp'.events = snp.events /\ snp'.buffers = snp.buffers
        /\ snp'.wanted = snp.wanted
    BY <2>2, <2>3 DEF SnpRecords
  <2> QED
    BY <2>1, <2>4, <2>5 DEF SameHeld
<1>14. Recycled' = new
  BY <1>13, SnpThere DEF Recycled, SameHeld
<1>15. HeldOnce'
  BY <1>7, <1>10, <1>11, <1>14 DEF HeldOnce
<1>16. UNCHANGED binds
  BY DEF PxeGetStatus
<1>17. nsent' \in Nat /\ nsent' <= Len(queue')
  BY <1>1, <1>3, <1>7
<1>18. k + grown >= MaxXmit
  BY <1>1, <1>6
<1> QED
  BY <1>2, <1>7, <1>9, <1>13, <1>15, <1>16, <1>17, <1>18

LEMMA StatusKeeps ==
  ASSUME IInv, NEW c, IsPlain(c), Do(c), Head(c.todo) = "PxeGetStatus"
  PROVE  IInv'
<1>1. PxeGetStatus(c) /\ snp # NoSnp
  BY DoStep, PlainNext DEF InState
<1>2. /\ Forward /\ SameHeld /\ (\E ok : Continue(c, ok)) /\ UNCHANGED binds
      /\ snp'.MaxRecycledTxBuf >= MaxXmit
      /\ queue' \in Seq(Buffers) /\ nsent' \in Nat /\ nsent' <= Len(queue')
      /\ HeldOnce'
  BY <1>1, StatusMoves DEF IInv
<1>3. CallsFollow' /\ WellFormed(call')
  BY <1>2, PlainGoesOn
<1>4. SnpMatchesUndi'
  BY <1>1, <1>2, StateKept DEF IInv, SameHeld
<1>5. Typed'
  BY <1>2, <1>3 DEF Typed, IInv, Forward, SameHeld
<1> QED
  BY <1>2, <1>3, <1>4, <1>5 DEF IInv

-----------------------------------------------------------------------------
(* The calls that change the SNP's state or what it holds.                 *)

Then(c, todo) == call' = IF todo = <<>> THEN Idle ELSE [c EXCEPT !.todo = todo]

Settled == IF snp.State = "Initialized" THEN Holding ELSE Clean

LEMMA GoesOn ==
  ASSUME NEW c, NEW ok, Continue(c, ok)
  PROVE  (ok => Then(c, OnSuccess(c))) /\ (~ok => Then(c, OnError(c)))
BY DEF Continue, Then

LEMMA ThenDoes ==
  ASSUME NEW c, NEW todo, WellFormed(c), c.name # "none", Then(c, todo)
  PROVE  /\ WellFormed(call')
         /\ todo = <<>> => call' = Idle
         /\ todo # <<>> => /\ call' # Idle /\ call'.name = c.name /\ call'.todo = todo
                           /\ call'.buf = c.buf
BY DEF Then, WellFormed, Idle, Simple, Call, Undi!Addresses

(* What is left of each program, by its next command.                      *)
LEMMA BindErrors ==
  ASSUME NEW c, c.name = "Bind"
  PROVE  /\ Head(c.todo) = "Install" => OnError(c) = <<"Delete">>
         /\ Head(c.todo) \in {"GetInitInfo", "PxeInit"} => OnError(c) = <<"PxeStop", "Delete">>
         /\ Head(c.todo) = "PxeGetStnAddr" => OnError(c) = <<"PxeShutdown", "PxeStop", "Delete">>
<1>1. ASSUME Head(c.todo) = "Install" PROVE OnError(c) = <<"Delete">>
  BY <1>1 DEF OnError
<1>2. ASSUME Head(c.todo) \in {"GetInitInfo", "PxeInit"} PROVE OnError(c) = <<"PxeStop", "Delete">>
  BY <1>2 DEF OnError
<1>3. ASSUME Head(c.todo) = "PxeGetStnAddr" PROVE OnError(c) = <<"PxeShutdown", "PxeStop", "Delete">>
  BY <1>3 DEF OnError
<1> QED
  BY <1>1, <1>2, <1>3

LEMMA BindPrograms ==
  ASSUME NEW c, c.name = "Bind"
  PROVE  /\ c.todo = <<"PxeStart", "GetInitInfo", "PxeInit", "PxeGetStnAddr", "PxeShutdown",
                       "PxeStop", "Install">> =>
              /\ Head(c.todo) = "PxeStart"
              /\ OnSuccess(c) = <<"GetInitInfo", "PxeInit", "PxeGetStnAddr", "PxeShutdown", "PxeStop", "Install">>
         /\ c.todo = <<"GetInitInfo", "PxeInit", "PxeGetStnAddr", "PxeShutdown", "PxeStop", "Install">> =>
              /\ Head(c.todo) = "GetInitInfo" /\ OnError(c) = <<"PxeStop", "Delete">>
              /\ OnSuccess(c) = <<"PxeInit", "PxeGetStnAddr", "PxeShutdown", "PxeStop", "Install">>
         /\ c.todo = <<"PxeInit", "PxeGetStnAddr", "PxeShutdown", "PxeStop", "Install">> =>
              /\ Head(c.todo) = "PxeInit" /\ OnError(c) = <<"PxeStop", "Delete">>
              /\ OnSuccess(c) = <<"PxeGetStnAddr", "PxeShutdown", "PxeStop", "Install">>
         /\ c.todo = <<"PxeGetStnAddr", "PxeShutdown", "PxeStop", "Install">> =>
              /\ Head(c.todo) = "PxeGetStnAddr" /\ OnError(c) = <<"PxeShutdown", "PxeStop", "Delete">>
              /\ OnSuccess(c) = <<"PxeShutdown", "PxeStop", "Install">>
         /\ c.todo = <<"PxeShutdown", "PxeStop", "Install">> =>
              /\ Head(c.todo) = "PxeShutdown" /\ OnError(c) = <<"PxeStop", "Install">>
              /\ OnSuccess(c) = <<"PxeStop", "Install">>
         /\ c.todo = <<"PxeStop", "Install">> =>
              Head(c.todo) = "PxeStop" /\ OnSuccess(c) = <<"Install">>
         /\ c.todo = <<"Install">> =>
              Head(c.todo) = "Install" /\ OnError(c) = <<"Delete">> /\ OnSuccess(c) = <<>>
<1>1. ASSUME c.todo = <<"PxeStart", "GetInitInfo", "PxeInit", "PxeGetStnAddr", "PxeShutdown",
                       "PxeStop", "Install">>
      PROVE  /\ Head(c.todo) = "PxeStart"
             /\ OnSuccess(c) = <<"GetInitInfo", "PxeInit", "PxeGetStnAddr", "PxeShutdown", "PxeStop", "Install">>
  BY <1>1, HeadTail DEF OnSuccess
<1>2. ASSUME c.todo = <<"GetInitInfo", "PxeInit", "PxeGetStnAddr", "PxeShutdown", "PxeStop", "Install">>
      PROVE  /\ Head(c.todo) = "GetInitInfo" /\ OnError(c) = <<"PxeStop", "Delete">>
             /\ OnSuccess(c) = <<"PxeInit", "PxeGetStnAddr", "PxeShutdown", "PxeStop", "Install">>
  BY <1>2, HeadTail, BindErrors DEF OnSuccess
<1>3. ASSUME c.todo = <<"PxeInit", "PxeGetStnAddr", "PxeShutdown", "PxeStop", "Install">>
      PROVE  /\ Head(c.todo) = "PxeInit" /\ OnError(c) = <<"PxeStop", "Delete">>
             /\ OnSuccess(c) = <<"PxeGetStnAddr", "PxeShutdown", "PxeStop", "Install">>
  BY <1>3, HeadTail, BindErrors DEF OnSuccess
<1>4. ASSUME c.todo = <<"PxeGetStnAddr", "PxeShutdown", "PxeStop", "Install">>
      PROVE  /\ Head(c.todo) = "PxeGetStnAddr" /\ OnError(c) = <<"PxeShutdown", "PxeStop", "Delete">>
             /\ OnSuccess(c) = <<"PxeShutdown", "PxeStop", "Install">>
  BY <1>4, HeadTail, BindErrors DEF OnSuccess
<1>5. ASSUME c.todo = <<"PxeShutdown", "PxeStop", "Install">>
      PROVE  /\ Head(c.todo) = "PxeShutdown" /\ OnError(c) = <<"PxeStop", "Install">>
             /\ OnSuccess(c) = <<"PxeStop", "Install">>
  BY <1>5, HeadTail DEF OnSuccess, OnError
<1>6. ASSUME c.todo = <<"PxeStop", "Install">>
      PROVE  Head(c.todo) = "PxeStop" /\ OnSuccess(c) = <<"Install">>
  BY <1>6, HeadTail DEF OnSuccess
<1>7. ASSUME c.todo = <<"Install">>
      PROVE  Head(c.todo) = "Install" /\ OnError(c) = <<"Delete">> /\ OnSuccess(c) = <<>>
  BY <1>7, HeadTail, BindErrors DEF OnSuccess
<1> QED
  BY <1>1, <1>2, <1>3, <1>4, <1>5, <1>6, <1>7

LEMMA UndoPrograms ==
  ASSUME NEW c, c.name \in {"Bind", "Unbind"}
  PROVE  /\ c.todo = <<"PxeShutdown", "PxeStop", "Delete">> =>
              /\ Head(c.todo) = "PxeShutdown" /\ OnError(c) = <<"PxeStop", "Delete">>
              /\ OnSuccess(c) = <<"PxeStop", "Delete">>
         /\ c.todo = <<"PxeStop", "Delete">> =>
              Head(c.todo) = "PxeStop" /\ OnError(c) = <<"Delete">> /\ OnSuccess(c) = <<"Delete">>
         /\ c.todo = <<"Delete">> => Head(c.todo) = "Delete" /\ OnSuccess(c) = <<>>
<1>1. ASSUME c.todo = <<"PxeShutdown", "PxeStop", "Delete">>
      PROVE  /\ Head(c.todo) = "PxeShutdown" /\ OnError(c) = <<"PxeStop", "Delete">>
             /\ OnSuccess(c) = <<"PxeStop", "Delete">>
  BY <1>1, HeadTail DEF OnSuccess, OnError
<1>2. ASSUME c.todo = <<"PxeStop", "Delete">>
      PROVE  Head(c.todo) = "PxeStop" /\ OnError(c) = <<"Delete">> /\ OnSuccess(c) = <<"Delete">>
  BY <1>2, HeadTail DEF OnSuccess, OnError
<1>3. ASSUME c.todo = <<"Delete">> PROVE Head(c.todo) = "Delete" /\ OnSuccess(c) = <<>>
  BY <1>3, HeadTail DEF OnSuccess
<1> QED
  BY <1>1, <1>2, <1>3

LEMMA InitializePrograms ==
  ASSUME NEW c, c.name = "Initialize"
  PROVE  /\ c.todo = <<"PxeInitDetect", "PxeInit", "PxeGetStatus">> =>
              /\ Head(c.todo) = "PxeInitDetect" /\ OnError(c) = <<"PxeInit", "PxeGetStatus">>
              /\ OnSuccess(c) = <<>>
         /\ c.todo = <<"PxeInit", "PxeGetStatus">> =>
              Head(c.todo) = "PxeInit" /\ OnError(c) = <<>> /\ OnSuccess(c) = <<"PxeGetStatus">>
         /\ c.todo = <<"PxeGetStatus">> =>
              Head(c.todo) = "PxeGetStatus" /\ OnError(c) = <<>> /\ OnSuccess(c) = <<>>
<1>1. ASSUME c.todo = <<"PxeInitDetect", "PxeInit", "PxeGetStatus">>
      PROVE  /\ Head(c.todo) = "PxeInitDetect" /\ OnError(c) = <<"PxeInit", "PxeGetStatus">>
             /\ OnSuccess(c) = <<>>
  BY <1>1, HeadTail DEF OnSuccess, OnError
<1>2. ASSUME c.todo = <<"PxeInit", "PxeGetStatus">>
      PROVE  Head(c.todo) = "PxeInit" /\ OnError(c) = <<>> /\ OnSuccess(c) = <<"PxeGetStatus">>
  BY <1>2, HeadTail DEF OnSuccess, OnError
<1>3. ASSUME c.todo = <<"PxeGetStatus">>
      PROVE  Head(c.todo) = "PxeGetStatus" /\ OnError(c) = <<>> /\ OnSuccess(c) = <<>>
  BY <1>3, HeadTail DEF OnSuccess, OnError
<1> QED
  BY <1>1, <1>2, <1>3

LEMMA SinglePrograms ==
  ASSUME NEW c, NEW step, step # "PxeInitDetect", c.name \in {"Start", "Stop", "Shutdown"}, c.todo = <<step>>
  PROVE  Head(c.todo) = step /\ OnError(c) = <<>> /\ OnSuccess(c) = <<>>
<1>1. Head(c.todo) = step /\ Tail(c.todo) = <<>>
  BY HeadTail
<1> QED
  BY <1>1 DEF OnSuccess, OnError

(* A step that leaves the transmit buffers alone, and the call ready for   *)
(* the next or, at its end, the SNP with what its state says.              *)
LEMMA Quietly ==
  ASSUME IInv, NEW c, WellFormed(c), c.name # "none", NEW todo, Then(c, todo), Forward,
         UNCHANGED <<queue, nsent, given>>, binds' \in Nat,
         snp' \in SnpRecords, snp'.RecycledTxBuf = Recycled, snp'.MaxRecycledTxBuf >= MaxXmit,
         \/ snp # NoSnp /\ snp'.State = snp.State
         \/ snp'.State = "Stopped"
         \/ snp'.State = "Started" /\ State' # "STOPPED"
         \/ snp'.State = "Initialized" /\ State' = "INITIALIZED",
         todo = <<>> => Settled',
         todo # <<>> /\ call'.name = c.name /\ call'.todo = todo => Ready(call)'
  PROVE  IInv'
<1>1. /\ WellFormed(call')
      /\ todo = <<>> => call' = Idle
      /\ todo # <<>> => /\ call' # Idle /\ call'.name = c.name /\ call'.todo = todo
                        /\ call'.buf = c.buf
  BY ThenDoes
<1>2. snp' # NoSnp
  BY SnpThere
<1>3. Recycled' = Recycled
  BY <1>2 DEF Recycled
<1>4. Typed'
  BY <1>1 DEF IInv, Typed, Forward
<1>5. HeldOnce'
  BY <1>3 DEF IInv, HeldOnce
<1>6. SnpMatchesUndi'
  BY StateKept DEF IInv
<1>7. CASE todo = <<>>
  <2>1. call' = Idle /\ Settled'
    BY <1>1, <1>7
  <2>2. CallsFollow'
    BY <2>1 DEF CallsFollow, ResourcesMatchState, Settled, Holding, Clean, Size, Idle
  <2> QED
    BY <1>4, <1>5, <1>6, <2>2 DEF IInv
<1>8. CASE todo # <<>>
  <2>1. CallsFollow'
    BY <1>1, <1>8 DEF CallsFollow, Idle
  <2> QED
    BY <1>4, <1>5, <1>6, <2>1 DEF IInv
<1> QED
  BY <1>7, <1>8

LEMMA Known ==
  ASSUME IInv, snp # NoSnp
  PROVE  /\ snp \in SnpRecords /\ snp.MaxRecycledTxBuf >= MaxXmit /\ binds \in Nat
         /\ Recycled = snp.RecycledTxBuf
BY DEF IInv, Typed, Recycled

LEMMA Emptied ==
  ASSUME NEW s \in SnpRecords, NEW u, u = [s EXCEPT !.buffers = 0, !.wanted = FALSE]
  PROVE  u \in SnpRecords
<1>1. ASSUME NEW b \in BOOLEAN, NEW k \in Int, NEW v, v = [s EXCEPT !.buffers = k, !.wanted = b]
      PROVE  v \in SnpRecords
  BY <1>1 DEF SnpRecords
<1>2. FALSE \in BOOLEAN /\ 0 \in Int
  OBVIOUS
<1> QED
  BY <1>1, <1>2, Zenon

(* PxeShutdown and PxeStop, as far as the calls that use them agree.       *)
LEMMA ShuttingDown ==
  ASSUME IInv, NEW c, PxeShutdown(c), snp # NoSnp, c.name # "Shutdown"
  PROVE  /\ Forward /\ UNCHANGED <<queue, nsent, given, binds>>
         /\ snp' \in SnpRecords /\ snp'.RecycledTxBuf = Recycled
         /\ snp'.MaxRecycledTxBuf = snp.MaxRecycledTxBuf
         /\ snp'.State = snp.State /\ snp'.events = snp.events
         /\ Fresh => Fresh'
         /\ (Succeeded => Then(c, OnSuccess(c))) /\ (~Succeeded => Then(c, OnError(c)))
<1>1. Forward /\ UNCHANGED <<queue, nsent, given, binds>>
  BY Asking DEF PxeShutdown, NoTraffic
<1>2. snp \in SnpRecords /\ Recycled = snp.RecycledTxBuf
  BY DEF IInv, Typed, Recycled
<1>3. snp' = snp \/ snp' = [snp EXCEPT !.buffers = 0, !.wanted = FALSE]
  BY DEF PxeShutdown
<1>4. /\ snp' \in SnpRecords /\ snp'.RecycledTxBuf = Recycled
      /\ snp'.MaxRecycledTxBuf = snp.MaxRecycledTxBuf
      /\ snp'.State = snp.State /\ snp'.events = snp.events
  <2>1. CASE snp' = [snp EXCEPT !.buffers = 0, !.wanted = FALSE]
    <3>1. snp' \in SnpRecords
      BY <1>2, <2>1, Emptied
    <3>2. /\ snp'.RecycledTxBuf = snp.RecycledTxBuf /\ snp'.MaxRecycledTxBuf = snp.MaxRecycledTxBuf
          /\ snp'.State = snp.State /\ snp'.events = snp.events
      BY <1>2, <2>1 DEF SnpRecords
    <3> QED
      BY <1>2, <3>1, <3>2
  <2> QED
    BY <1>2, <1>3, <2>1
<1>5. Fresh => Fresh'
  BY <1>2, <1>3 DEF SnpRecords, Fresh, Clean
<1>6. (Succeeded => Then(c, OnSuccess(c))) /\ (~Succeeded => Then(c, OnError(c)))
  BY GoesOn DEF PxeShutdown
<1> QED
  BY <1>1, <1>4, <1>5, <1>6

LEMMA Stopping ==
  ASSUME IInv, NEW c, PxeStop(c), snp # NoSnp
  PROVE  /\ Forward /\ UNCHANGED <<queue, nsent, given, binds>>
         /\ snp' \in SnpRecords /\ snp'.RecycledTxBuf = Recycled
         /\ snp'.MaxRecycledTxBuf = snp.MaxRecycledTxBuf
         /\ snp'.State = IF Succeeded THEN "Stopped" ELSE snp.State
         /\ snp'.events = snp.events /\ snp'.buffers = snp.buffers /\ snp'.wanted = snp.wanted
         /\ State = "INITIALIZED" => Succeeded
         /\ (Succeeded => Then(c, OnSuccess(c))) /\ (~Succeeded => Then(c, OnError(c)))
<1>1. Forward /\ UNCHANGED <<queue, nsent, given, binds>>
  BY Asking DEF PxeStop, NoTraffic
<1>2. snp \in SnpRecords /\ Recycled = snp.RecycledTxBuf
  BY DEF IInv, Typed, Recycled
<1>3. snp' = IF Succeeded THEN [snp EXCEPT !.State = "Stopped"] ELSE snp
  BY DEF PxeStop
<1>4. /\ snp' \in SnpRecords /\ snp'.RecycledTxBuf = Recycled
      /\ snp'.MaxRecycledTxBuf = snp.MaxRecycledTxBuf
      /\ snp'.State = IF Succeeded THEN "Stopped" ELSE snp.State
      /\ snp'.events = snp.events /\ snp'.buffers = snp.buffers /\ snp'.wanted = snp.wanted
  <2>1. CASE Succeeded
    <3>1. snp' = [snp EXCEPT !.State = "Stopped"]
      BY <1>3, <2>1
    <3>2. /\ snp' \in SnpRecords /\ snp'.RecycledTxBuf = Recycled
          /\ snp'.MaxRecycledTxBuf = snp.MaxRecycledTxBuf /\ snp'.State = "Stopped"
          /\ snp'.events = snp.events /\ snp'.buffers = snp.buffers /\ snp'.wanted = snp.wanted
      BY <1>2, <3>1 DEF SnpRecords
    <3> QED
      BY <2>1, <3>2
  <2>2. CASE ~Succeeded
    BY <1>2, <1>3, <2>2
  <2> QED
    BY <2>1, <2>2
<1>5. State = "INITIALIZED" => Succeeded
  BY Asking, Allowed DEF PxeStop
<1>6. (Succeeded => Then(c, OnSuccess(c))) /\ (~Succeeded => Then(c, OnError(c)))
  BY GoesOn DEF PxeStop
<1> QED
  BY <1>1, <1>4, <1>5, <1>6

(* Unbind, and a Bind that undoes what it has done.                        *)
LEMMA UndoKeeps ==
  ASSUME IInv, NEW c, WellFormed(c), c.name \in {"Bind", "Unbind"}, c.todo \in Undoing, snp # NoSnp, Do(c)
  PROVE  IInv'
<1>1. ASSUME NEW todo \in Undoing, Then(c, todo), Forward, UNCHANGED <<queue, nsent, given, binds>>,
             snp' \in SnpRecords, snp'.RecycledTxBuf = Recycled,
             snp'.MaxRecycledTxBuf = snp.MaxRecycledTxBuf,
             snp'.State = snp.State \/ snp'.State = "Stopped"
      PROVE  IInv'
  <2>1. todo # <<>>
    BY NotEmpty DEF Undoing
  <2>2. ASSUME call'.name = c.name, call'.todo = todo PROVE Ready(call)'
    BY <1>1, <2>2, SnpThere DEF Ready, Binding
  <2> QED
    BY <1>1, <2>1, <2>2, Known, Quietly
<1>2. CASE c.todo = <<"PxeShutdown", "PxeStop", "Delete">>
  <2>1. PxeShutdown(c) /\ OnSuccess(c) \in Undoing /\ OnError(c) \in Undoing
    <3>1. Head(c.todo) = "PxeShutdown" /\ OnSuccess(c) \in Undoing /\ OnError(c) \in Undoing
      BY <1>2, UndoPrograms DEF Undoing
    <3> QED
      BY <3>1, DoStep
  <2> QED
    BY <1>1, <2>1, ShuttingDown
<1>3. CASE c.todo = <<"PxeStop", "Delete">>
  <2>1. PxeStop(c) /\ OnSuccess(c) \in Undoing /\ OnError(c) \in Undoing
    <3>1. Head(c.todo) = "PxeStop" /\ OnSuccess(c) \in Undoing /\ OnError(c) \in Undoing
      BY <1>3, UndoPrograms DEF Undoing
    <3> QED
      BY <3>1, DoStep
  <2> QED
    BY <1>1, <2>1, Stopping
<1>4. CASE c.todo = <<"Delete">>
  <2>1. Delete(c) /\ OnSuccess(c) = <<>>
    <3>1. Head(c.todo) = "Delete" /\ OnSuccess(c) = <<>>
      BY <1>4, UndoPrograms
    <3> QED
      BY <3>1, DoStep
  <2>2. /\ snp' = NoSnp /\ given' = ToSet(queue) /\ Then(c, <<>>) /\ Forward
        /\ UNCHANGED <<queue, nsent, binds>>
    BY <2>1, GoesOn, Idling DEF Delete
  <2>3. call' = Idle /\ WellFormed(call')
    BY <2>2, ThenDoes
  <2>4. Typed'
    BY <2>2, <2>3 DEF IInv, Typed, Forward
  <2>5. SnpMatchesUndi' /\ CallsFollow'
    BY <2>2, <2>3 DEF SnpMatchesUndi, CallsFollow, ResourcesMatchState, Idle
  <2>6. HeldOnce'
    <3>1. Recycled' = <<>>
      BY <2>2 DEF Recycled
    <3>2. ToSet(<<>>) = {} /\ IsInjective(<<>>)
      BY DEF ToSet, IsInjective
    <3> QED
      BY <2>2, <3>1, <3>2 DEF IInv, HeldOnce
  <2> QED
    BY <2>4, <2>5, <2>6 DEF IInv
<1> QED
  BY <1>2, <1>3, <1>4 DEF Undoing

(* Start, Stop and Shutdown.                                               *)
LEMMA StartKeeps ==
  ASSUME IInv, NEW c, WellFormed(c), c.name = "Start", Ready(c), Do(c)
  PROVE  IInv'
<1>1. c.todo = <<"PxeStart">> /\ InState("Stopped") /\ Clean /\ snp # NoSnp
  BY DEF Ready, InState, Plain
<1>2. PxeStart(c) /\ OnSuccess(c) = <<>>
  BY <1>1, SinglePrograms, DoStep
<1>3. Forward /\ Succeeded /\ State' # "STOPPED"
  BY <1>2, Starting DEF PxeStart
<1>4. /\ snp' = [snp EXCEPT !.State = "Started"] /\ binds' = binds /\ UNCHANGED <<queue, nsent, given>>
      /\ Then(c, <<>>)
  BY <1>2, <1>3, GoesOn DEF PxeStart, NoTraffic
<1>5. /\ snp' \in SnpRecords /\ snp'.RecycledTxBuf = Recycled /\ snp'.MaxRecycledTxBuf >= MaxXmit
      /\ snp'.State = "Started" /\ snp'.events = 0 /\ snp'.buffers = 0 /\ binds \in Nat
  BY <1>1, <1>4, Known DEF SnpRecords, Clean
<1>6. Settled'
  BY <1>5 DEF Settled, Clean
<1> QED
  BY <1>3, <1>4, <1>5, <1>6, Quietly

LEMMA StopKeeps ==
  ASSUME IInv, NEW c, WellFormed(c), c.name = "Stop", Ready(c), Do(c)
  PROVE  IInv'
<1>1. c.todo = <<"PxeStop">> /\ InState("Started") /\ Clean /\ snp # NoSnp
  BY DEF Ready, InState, Plain
<1>2. PxeStop(c) /\ OnSuccess(c) = <<>> /\ OnError(c) = <<>>
  BY <1>1, SinglePrograms, DoStep
<1>3. /\ Forward /\ UNCHANGED <<queue, nsent, given, binds>>
      /\ snp' \in SnpRecords /\ snp'.RecycledTxBuf = Recycled
      /\ snp'.MaxRecycledTxBuf = snp.MaxRecycledTxBuf
      /\ snp'.State \in {"Stopped", "Started"} /\ (snp'.State = "Stopped" \/ snp'.State = snp.State)
      /\ snp'.events = 0 /\ snp'.buffers = 0 /\ Then(c, <<>>)
  BY <1>1, <1>2, Stopping DEF InState, Clean
<1>4. Settled'
  BY <1>3 DEF Settled, Clean
<1> QED
  BY <1>1, <1>3, <1>4, Known, Quietly

LEMMA ShutdownKeeps ==
  ASSUME IInv, NEW c, WellFormed(c), c.name = "Shutdown", Ready(c), Do(c)
  PROVE  IInv'
<1>1. c.todo = <<"PxeShutdown">> /\ InState("Initialized") /\ Holding /\ snp # NoSnp
  BY DEF Ready, InState, Plain
<1>2. PxeShutdown(c) /\ OnSuccess(c) = <<>>
  BY <1>1, SinglePrograms, DoStep
<1>3. State = "INITIALIZED"
  BY <1>1 DEF IInv, SnpMatchesUndi, InState
<1>4. Forward /\ Succeeded /\ UNCHANGED <<queue, nsent, given, binds>>
  BY <1>2, <1>3, Asking, Allowed DEF PxeShutdown, NoTraffic
<1>5. /\ snp' = [[snp EXCEPT !.buffers = 0, !.wanted = FALSE]
                   EXCEPT !.State = "Started", !.filter = FALSE, !.CurrentAddress = "perm",
                          !.events = @ - 1]
      /\ Then(c, <<>>)
  BY <1>2, <1>4, GoesOn DEF PxeShutdown
<1>6. /\ snp' \in SnpRecords /\ snp'.RecycledTxBuf = Recycled /\ snp'.MaxRecycledTxBuf >= MaxXmit
      /\ snp'.State = "Started" /\ snp'.events = 0 /\ snp'.buffers = 0 /\ binds \in Nat
  <2>1. PICK s : s = [snp EXCEPT !.buffers = 0, !.wanted = FALSE]
    OBVIOUS
  <2>0. snp \in SnpRecords /\ snp.events = 1
    BY <1>1, Known DEF Holding
  <2>2. /\ s \in SnpRecords /\ s.RecycledTxBuf = Recycled /\ s.MaxRecycledTxBuf >= MaxXmit
        /\ s.events = 1 /\ s.buffers = 0 /\ binds \in Nat
    <3>1. s \in SnpRecords
      BY <2>0, <2>1, Emptied
    <3>2. /\ s.RecycledTxBuf = snp.RecycledTxBuf /\ s.MaxRecycledTxBuf = snp.MaxRecycledTxBuf
          /\ s.events = 1 /\ s.buffers = 0
      BY <2>0, <2>1 DEF SnpRecords
    <3> QED
      BY <1>1, <3>1, <3>2, Known
  <2>3. snp' = [s EXCEPT !.State = "Started", !.filter = FALSE, !.CurrentAddress = "perm",
                         !.events = s.events - 1]
    BY <1>5, <2>1
  <2>4. snp' \in SnpRecords
    <3>1. s.events - 1 \in Int
      BY <2>2
    <3> QED
      BY <2>2, <2>3, <3>1 DEF SnpRecords
  <2>5. /\ snp'.RecycledTxBuf = s.RecycledTxBuf /\ snp'.MaxRecycledTxBuf = s.MaxRecycledTxBuf
        /\ snp'.State = "Started" /\ snp'.events = s.events - 1 /\ snp'.buffers = s.buffers
    BY <2>2, <2>3 DEF SnpRecords
  <2> QED
    BY <2>2, <2>4, <2>5
<1>7. Settled' /\ State' # "STOPPED"
  BY <1>3, <1>4, <1>6 DEF Settled, Clean, Forward
<1> QED
  BY <1>4, <1>5, <1>6, <1>7, Quietly

(* PxeInit: the SNP is Initialized, with the buffer it wants, if the UNDI  *)
(* is; otherwise it has gained nothing.                                    *)
Beginning(c) == c.name = "Initialize" /\ Head(c.todo) = "PxeInitDetect"

LEMMA Preparing ==
  ASSUME NEW c, NEW extra \in BOOLEAN, snp \in SnpRecords
  PROVE  LET s == Prepared(c, extra)
         IN  /\ s \in SnpRecords
             /\ s.State = snp.State /\ s.buffers = snp.buffers
             /\ s.RecycledTxBuf = snp.RecycledTxBuf /\ s.MaxRecycledTxBuf = snp.MaxRecycledTxBuf
             /\ s.events = snp.events + (IF Beginning(c) THEN 1 ELSE 0)
             /\ ~Beginning(c) => s = snp
<1>1. CASE Beginning(c)
  <2>1. ASSUME NEW n \in Int, NEW f \in BOOLEAN, NEW u,
               u = [snp EXCEPT !.events = n, !.filter = f, !.CurrentAddress = "perm", !.wanted = extra]
        PROVE  /\ u \in SnpRecords
               /\ u.State = snp.State /\ u.buffers = snp.buffers
               /\ u.RecycledTxBuf = snp.RecycledTxBuf /\ u.MaxRecycledTxBuf = snp.MaxRecycledTxBuf
               /\ u.events = n
    <3>1. u \in SnpRecords
      BY <2>1 DEF SnpRecords
    <3>2. /\ u.State = snp.State /\ u.buffers = snp.buffers
          /\ u.RecycledTxBuf = snp.RecycledTxBuf /\ u.MaxRecycledTxBuf = snp.MaxRecycledTxBuf
          /\ u.events = n
      BY <2>1 DEF SnpRecords
    <3> QED
      BY <3>1, <3>2
  <2>2. PICK u : u = Prepared(c, extra)
    OBVIOUS
  <2>3. u = [snp EXCEPT !.events = snp.events + 1, !.filter = FALSE, !.CurrentAddress = "perm",
                        !.wanted = extra]
    BY <1>1, <2>2 DEF Prepared, Beginning
  <2>4. snp.events + 1 \in Int /\ FALSE \in BOOLEAN
    BY DEF SnpRecords
  <2>5. PICK n \in Int : n = snp.events + 1
    BY <2>4
  <2>6. u = [snp EXCEPT !.events = n, !.filter = FALSE, !.CurrentAddress = "perm", !.wanted = extra]
    BY <2>3, <2>5
  <2>7. /\ u \in SnpRecords
        /\ u.State = snp.State /\ u.buffers = snp.buffers
        /\ u.RecycledTxBuf = snp.RecycledTxBuf /\ u.MaxRecycledTxBuf = snp.MaxRecycledTxBuf
        /\ u.events = n
    BY <2>1, <2>4, <2>6, Zenon
  <2> QED
    BY <1>1, <2>2, <2>5, <2>7
<1>2. CASE ~Beginning(c)
  <2>1. Prepared(c, extra) = snp
    BY <1>2 DEF Prepared, Beginning
  <2>2. snp.events + 0 = snp.events
    BY DEF SnpRecords
  <2> QED
    BY <1>2, <2>1, <2>2
<1> QED
  BY <1>1, <1>2

LEMMA InitStep ==
  ASSUME IInv, snp # NoSnp, NEW c, NEW step, NEW detect \in BOOLEAN, PxeInit(c, step, detect)
  PROVE  /\ Forward /\ UNCHANGED <<queue, nsent, given, binds>>
         /\ snp' \in SnpRecords /\ snp'.RecycledTxBuf = Recycled
         /\ snp'.MaxRecycledTxBuf = snp.MaxRecycledTxBuf
         /\ ~Beginning(c) => snp'.wanted = snp.wanted
         /\ \E n \in Int :
              /\ n = snp.events + (IF Beginning(c) THEN 1 ELSE 0)
              /\ \/ /\ Then(c, OnSuccess(c)) /\ State' = "INITIALIZED" /\ snp'.State = "Initialized"
                    /\ snp'.events = n /\ snp'.buffers = snp.buffers + Size(snp')
                 \/ /\ Then(c, OnError(c)) /\ snp'.State = snp.State
                    /\ snp'.events = IF c.name = "Initialize" /\ ~detect THEN n - 1 ELSE n
                    /\ snp'.buffers = snp.buffers
<1>1. PICK extra \in BOOLEAN :
        \/ /\ \/ Undi!UndiInitialize(detect)
              \/ Undi!UndiBusy("Initialize")
              \/ Undi!WrongState("Initialize")
           /\ snp' = IF PxeInitDone THEN Initialized(Prepared(c, extra), detect)
                                    ELSE NotInitialized(c, Prepared(c, extra), detect)
           /\ Continue(c, PxeInitDone)
        \/ /\ snp' = NotInitialized(c, Prepared(c, extra), detect)
           /\ Continue(c, FALSE)
           /\ UNCHANGED undiVars
  BY DEF PxeInit
<1>2. Forward /\ UNCHANGED <<queue, nsent, given, binds>>
  <2>1. Forward
    BY <1>1, InitializingUndi, Refused, Idling
  <2> QED
    BY <2>1 DEF PxeInit
<1>3. snp \in SnpRecords /\ Recycled = snp.RecycledTxBuf
  BY Known
<1>4. PICK s : s = Prepared(c, extra)
  OBVIOUS
<1>5. /\ s \in SnpRecords
      /\ s.State = snp.State /\ s.buffers = snp.buffers
      /\ s.RecycledTxBuf = snp.RecycledTxBuf /\ s.MaxRecycledTxBuf = snp.MaxRecycledTxBuf
      /\ s.events = snp.events + (IF Beginning(c) THEN 1 ELSE 0)
      /\ ~Beginning(c) => s = snp
  BY <1>3, <1>4, Preparing
<1>6. s.events \in Int /\ s.buffers \in Int /\ s.MediaPresent \in BOOLEAN /\ s.wanted \in BOOLEAN
  BY <1>5 DEF SnpRecords
<1>7. ASSUME NEW u, NEW b \in BOOLEAN, NEW k \in Int, u = [s EXCEPT !.State = "Initialized", !.buffers = k, !.MediaPresent = b]
      PROVE  /\ u \in SnpRecords
             /\ u.RecycledTxBuf = s.RecycledTxBuf /\ u.MaxRecycledTxBuf = s.MaxRecycledTxBuf
             /\ u.State = "Initialized" /\ u.events = s.events /\ u.buffers = k /\ u.wanted = s.wanted
  <2>1. u \in SnpRecords
    BY <1>5, <1>7 DEF SnpRecords
  <2>2. /\ u.RecycledTxBuf = s.RecycledTxBuf /\ u.MaxRecycledTxBuf = s.MaxRecycledTxBuf
        /\ u.State = "Initialized" /\ u.events = s.events /\ u.buffers = k /\ u.wanted = s.wanted
    BY <1>5, <1>7 DEF SnpRecords
  <2> QED
    BY <2>1, <2>2
<1>8. ASSUME NEW u, NEW b \in BOOLEAN, NEW e \in Int, u = [s EXCEPT !.MediaPresent = b, !.events = e]
      PROVE  /\ u \in SnpRecords
             /\ u.RecycledTxBuf = s.RecycledTxBuf /\ u.MaxRecycledTxBuf = s.MaxRecycledTxBuf
             /\ u.State = s.State /\ u.events = e /\ u.buffers = s.buffers /\ u.wanted = s.wanted
  <2>1. u \in SnpRecords
    BY <1>5, <1>8 DEF SnpRecords
  <2>2. /\ u.RecycledTxBuf = s.RecycledTxBuf /\ u.MaxRecycledTxBuf = s.MaxRecycledTxBuf
        /\ u.State = s.State /\ u.events = e /\ u.buffers = s.buffers /\ u.wanted = s.wanted
    BY <1>5, <1>8 DEF SnpRecords
  <2> QED
    BY <2>1, <2>2
<1>9. CASE snp' = Initialized(s, detect) /\ State' = "INITIALIZED" /\ Then(c, OnSuccess(c))
  <2> DEFINE flag == IF detect THEN cdb'.StatFlags = "COMPLETE" ELSE s.MediaPresent
  <2>1. PICK b \in BOOLEAN : b = flag
    BY <1>6
  <2>2. PICK k \in Int : k = s.buffers + Size(s)
    BY <1>6 DEF Size
  <2>3. snp' = [s EXCEPT !.State = "Initialized", !.buffers = k, !.MediaPresent = b]
    BY <1>9, <2>1, <2>2 DEF Initialized
  <2>4. /\ snp' \in SnpRecords
        /\ snp'.RecycledTxBuf = s.RecycledTxBuf /\ snp'.MaxRecycledTxBuf = s.MaxRecycledTxBuf
        /\ snp'.State = "Initialized" /\ snp'.events = s.events /\ snp'.buffers = k
        /\ snp'.wanted = s.wanted
    BY <1>7, <2>3
  <2>5. k = snp.buffers + Size(snp')
    BY <1>5, <2>2, <2>4 DEF Size
  <2>6. ~Beginning(c) => snp'.wanted = snp.wanted
    BY <1>5, <2>4
  <2> QED
    BY <1>2, <1>3, <1>5, <1>6, <1>9, <2>4, <2>5, <2>6
<1>10. CASE snp' = NotInitialized(c, s, detect) /\ Then(c, OnError(c))
  <2>1. PICK b \in BOOLEAN : b = (s.MediaPresent /\ ~detect)
    BY <1>6
  <2>2. PICK e \in Int : e = IF c.name = "Initialize" /\ ~detect THEN s.events - 1 ELSE s.events
    BY <1>6
  <2>3. snp' = [s EXCEPT !.MediaPresent = b, !.events = e]
    BY <1>10, <2>1, <2>2 DEF NotInitialized
  <2>4. /\ snp' \in SnpRecords
        /\ snp'.RecycledTxBuf = s.RecycledTxBuf /\ snp'.MaxRecycledTxBuf = s.MaxRecycledTxBuf
        /\ snp'.State = s.State /\ snp'.events = e /\ snp'.buffers = s.buffers /\ snp'.wanted = s.wanted
    BY <1>8, <2>3
  <2>5. ~Beginning(c) => snp'.wanted = snp.wanted
    BY <1>5, <2>4
  <2> QED
    BY <1>2, <1>3, <1>5, <1>6, <1>10, <2>2, <2>4, <2>5
<1>11. \/ snp' = Initialized(s, detect) /\ State' = "INITIALIZED" /\ Then(c, OnSuccess(c))
       \/ snp' = NotInitialized(c, s, detect) /\ Then(c, OnError(c))
  <2>1. CASE UNCHANGED undiVars /\ snp' = NotInitialized(c, s, detect) /\ Continue(c, FALSE)
    BY <2>1, GoesOn
  <2>2. CASE /\ \/ Undi!UndiInitialize(detect)
                \/ Undi!UndiBusy("Initialize")
                \/ Undi!WrongState("Initialize")
             /\ snp' = IF PxeInitDone THEN Initialized(s, detect) ELSE NotInitialized(c, s, detect)
             /\ Continue(c, PxeInitDone)
    <3>1. PxeInitDone => State' = "INITIALIZED"
      BY <2>2, InitializingUndi, Refused DEF PxeInitDone
    <3>2. (PxeInitDone => Then(c, OnSuccess(c))) /\ (~PxeInitDone => Then(c, OnError(c)))
      BY <2>2, GoesOn
    <3> QED
      BY <2>2, <3>1, <3>2
  <2> QED
    BY <1>1, <1>4, <2>1, <2>2
<1> QED
  BY <1>9, <1>10, <1>11

(* SnpUndi32Initialize.                                                    *)
LEMMA InitializeKeeps ==
  ASSUME IInv, NEW c, WellFormed(c), c.name = "Initialize", Ready(c), Do(c)
  PROVE  IInv'
<1>1. Initializing(c) /\ snp # NoSnp
  BY DEF Ready, Initializing, InState, Plain
<1>2. /\ snp \in SnpRecords /\ snp.MaxRecycledTxBuf >= MaxXmit /\ binds \in Nat
      /\ Recycled = snp.RecycledTxBuf
  BY <1>1, Known
<1>3. CASE c.todo = <<"PxeInitDetect", "PxeInit", "PxeGetStatus">> /\ InState("Started") /\ Clean
  <2>1. /\ Head(c.todo) = "PxeInitDetect" /\ OnError(c) = <<"PxeInit", "PxeGetStatus">>
        /\ OnSuccess(c) = <<>>
    BY <1>3, InitializePrograms
  <2>2. PxeInit(c, "PxeInitDetect", TRUE) /\ Beginning(c) /\ snp.events = 0 /\ snp.buffers = 0
    BY <1>3, <2>1, DoStep DEF Beginning, Clean
  <2>3. /\ Forward /\ UNCHANGED <<queue, nsent, given, binds>>
        /\ snp' \in SnpRecords /\ snp'.RecycledTxBuf = Recycled
        /\ snp'.MaxRecycledTxBuf = snp.MaxRecycledTxBuf
        /\ \/ /\ Then(c, OnSuccess(c)) /\ State' = "INITIALIZED" /\ snp'.State = "Initialized"
              /\ snp'.events = 1 /\ snp'.buffers = Size(snp')
           \/ /\ Then(c, OnError(c)) /\ snp'.State = snp.State /\ snp'.events = 1 /\ snp'.buffers = 0
    <3>1. TRUE \in BOOLEAN
      OBVIOUS
    <3>2. /\ Forward /\ UNCHANGED <<queue, nsent, given, binds>>
          /\ snp' \in SnpRecords /\ snp'.RecycledTxBuf = Recycled
          /\ snp'.MaxRecycledTxBuf = snp.MaxRecycledTxBuf
          /\ ~Beginning(c) => snp'.wanted = snp.wanted
          /\ \E n \in Int :
               /\ n = snp.events + (IF Beginning(c) THEN 1 ELSE 0)
               /\ \/ /\ Then(c, OnSuccess(c)) /\ State' = "INITIALIZED" /\ snp'.State = "Initialized"
                     /\ snp'.events = n /\ snp'.buffers = snp.buffers + Size(snp')
                  \/ /\ Then(c, OnError(c)) /\ snp'.State = snp.State
                     /\ snp'.events = IF c.name = "Initialize" /\ ~TRUE THEN n - 1 ELSE n
                     /\ snp'.buffers = snp.buffers
      BY <1>1, <2>2, <3>1, InitStep, Zenon
    <3> QED
      BY <2>2, <3>2 DEF Size
  <2>4. CASE /\ Then(c, OnSuccess(c)) /\ State' = "INITIALIZED" /\ snp'.State = "Initialized"
             /\ snp'.events = 1 /\ snp'.buffers = Size(snp')
    <3>1. Settled' /\ Then(c, <<>>)
      BY <2>1, <2>4 DEF Settled, Holding, Size
    <3> QED
      BY <1>2, <2>3, <2>4, <3>1, Quietly
  <2>5. CASE Then(c, OnError(c)) /\ snp'.State = snp.State /\ snp'.events = 1 /\ snp'.buffers = 0
    <3>1. PICK todo : todo = <<"PxeInit", "PxeGetStatus">>
      OBVIOUS
    <3>2. todo # <<>> /\ Then(c, todo)
      BY <2>1, <2>5, <3>1, NotEmpty
    <3>3. ASSUME call'.name = c.name, call'.todo = todo PROVE Ready(call)'
      BY <1>3, <2>3, <2>5, <3>1, <3>3, SnpThere DEF Ready, Initializing, InState
    <3> QED
      BY <1>1, <1>2, <2>3, <2>5, <3>2, <3>3, Quietly
  <2> QED
    BY <2>3, <2>4, <2>5
<1>4. CASE c.todo = <<"PxeInit", "PxeGetStatus">> /\ InState("Started") /\ snp.events = 1 /\ snp.buffers = 0
  <2>1. Head(c.todo) = "PxeInit" /\ OnError(c) = <<>> /\ OnSuccess(c) = <<"PxeGetStatus">>
    BY <1>4, InitializePrograms
  <2>2. PxeInit(c, "PxeInit", FALSE) /\ ~Beginning(c)
    BY <2>1, DoStep DEF Beginning
  <2>3. /\ Forward /\ UNCHANGED <<queue, nsent, given, binds>>
        /\ snp' \in SnpRecords /\ snp'.RecycledTxBuf = Recycled
        /\ snp'.MaxRecycledTxBuf = snp.MaxRecycledTxBuf
        /\ \/ /\ Then(c, OnSuccess(c)) /\ State' = "INITIALIZED" /\ snp'.State = "Initialized"
              /\ snp'.events = 1 /\ snp'.buffers = Size(snp')
           \/ /\ Then(c, OnError(c)) /\ snp'.State = snp.State /\ snp'.events = 0 /\ snp'.buffers = 0
    <3>1. FALSE \in BOOLEAN
      OBVIOUS
    <3>2. /\ Forward /\ UNCHANGED <<queue, nsent, given, binds>>
          /\ snp' \in SnpRecords /\ snp'.RecycledTxBuf = Recycled
          /\ snp'.MaxRecycledTxBuf = snp.MaxRecycledTxBuf
          /\ ~Beginning(c) => snp'.wanted = snp.wanted
          /\ \E n \in Int :
               /\ n = snp.events + (IF Beginning(c) THEN 1 ELSE 0)
               /\ \/ /\ Then(c, OnSuccess(c)) /\ State' = "INITIALIZED" /\ snp'.State = "Initialized"
                     /\ snp'.events = n /\ snp'.buffers = snp.buffers + Size(snp')
                  \/ /\ Then(c, OnError(c)) /\ snp'.State = snp.State
                     /\ snp'.events = IF c.name = "Initialize" /\ ~FALSE THEN n - 1 ELSE n
                     /\ snp'.buffers = snp.buffers
      BY <1>1, <2>2, <3>1, InitStep, Zenon
    <3> QED
      BY <1>4, <2>2, <3>2 DEF Size
  <2>4. CASE /\ Then(c, OnSuccess(c)) /\ State' = "INITIALIZED" /\ snp'.State = "Initialized"
             /\ snp'.events = 1 /\ snp'.buffers = Size(snp')
    <3>1. PICK todo : todo = <<"PxeGetStatus">>
      OBVIOUS
    <3>2. todo # <<>> /\ Then(c, todo)
      BY <2>1, <2>4, <3>1, NotEmpty
    <3>3. ASSUME call'.name = c.name, call'.todo = todo PROVE Ready(call)'
      BY <2>3, <2>4, <3>1, <3>3, SnpThere DEF Ready, Initializing, InState, Holding
    <3> QED
      BY <1>2, <2>3, <2>4, <3>2, <3>3, Quietly
  <2>5. CASE Then(c, OnError(c)) /\ snp'.State = snp.State /\ snp'.events = 0 /\ snp'.buffers = 0
    <3>1. Settled' /\ Then(c, <<>>)
      BY <1>4, <2>1, <2>5 DEF Settled, Clean, InState
    <3> QED
      BY <1>1, <1>2, <2>3, <2>5, <3>1, Quietly
  <2> QED
    BY <2>3, <2>4, <2>5
<1>5. CASE c.todo = <<"PxeGetStatus">> /\ InState("Initialized") /\ Holding
  <2>1. Head(c.todo) = "PxeGetStatus" /\ OnError(c) = <<>> /\ OnSuccess(c) = <<>>
    BY <1>5, InitializePrograms
  <2>2. PxeGetStatus(c)
    BY <2>1, DoStep
  <2>3. /\ Forward /\ SameHeld /\ (\E ok : Continue(c, ok)) /\ UNCHANGED binds
        /\ snp'.MaxRecycledTxBuf >= MaxXmit
        /\ queue' \in Seq(Buffers) /\ nsent' \in Nat /\ nsent' <= Len(queue')
        /\ HeldOnce'
    BY <1>1, <2>2, StatusMoves DEF IInv
  <2>4. Then(c, <<>>)
    BY <2>1, <2>3, ContinuedWith DEF Then
  <2>5. call' = Idle /\ WellFormed(call')
    BY <2>4, ThenDoes
  <2>6. Typed'
    BY <2>3, <2>5 DEF Typed, IInv, Forward, SameHeld
  <2>7. SnpMatchesUndi'
    BY <1>1, <2>3, StateKept DEF IInv, SameHeld
  <2>8. CallsFollow'
    BY <1>5, <2>3, <2>5 DEF CallsFollow, ResourcesMatchState, InState, Holding, Size, SameHeld, Idle
  <2> QED
    BY <2>3, <2>6, <2>7, <2>8 DEF IInv
<1> QED
  BY <1>1, <1>3, <1>4, <1>5 DEF Initializing

(* SimpleNetworkDriverStart.                                               *)
LEMMA BindKeeps ==
  ASSUME IInv, NEW c, WellFormed(c), c.name = "Bind", Ready(c), Do(c)
  PROVE  IInv'
<1>1. Binding(c)
  BY DEF Ready, Plain
<1>2. ASSUME snp # NoSnp
      PROVE  /\ snp \in SnpRecords /\ snp.MaxRecycledTxBuf >= MaxXmit /\ binds \in Nat
             /\ Recycled = snp.RecycledTxBuf
  BY <1>2, Known
<1>3. ASSUME NEW todo, todo # <<>>, Then(c, todo), Forward, UNCHANGED <<queue, nsent, given>>,
             binds' \in Nat, snp' \in SnpRecords, snp'.RecycledTxBuf = Recycled,
             snp'.MaxRecycledTxBuf >= MaxXmit,
             \/ snp # NoSnp /\ snp'.State = snp.State
             \/ snp'.State = "Stopped"
             \/ snp'.State = "Started" /\ State' # "STOPPED"
             \/ snp'.State = "Initialized" /\ State' = "INITIALIZED",
             call'.todo = todo => Binding(call)'
      PROVE  IInv'
  <2>1. ASSUME call'.name = c.name, call'.todo = todo PROVE Ready(call)'
    BY <1>3, <2>1 DEF Ready
  <2> QED
    BY <1>3, <2>1, Quietly
<1>4. CASE /\ c.todo = <<"PxeStart", "GetInitInfo", "PxeInit", "PxeGetStnAddr", "PxeShutdown",
                         "PxeStop", "Install">>
           /\ snp = NoSnp
  <2>1. /\ Head(c.todo) = "PxeStart"
        /\ OnSuccess(c) = <<"GetInitInfo", "PxeInit", "PxeGetStnAddr", "PxeShutdown", "PxeStop", "Install">>
    BY <1>4, BindPrograms
  <2>2. PxeStart(c)
    BY <2>1, DoStep
  <2>3. Forward /\ Succeeded /\ State' # "STOPPED"
    BY <2>2, Starting DEF PxeStart
  <2>4. /\ snp' = [NewSnp(binds + 1) EXCEPT !.State = "Started"] /\ binds' = binds + 1
        /\ UNCHANGED <<queue, nsent, given>> /\ Then(c, OnSuccess(c))
    BY <2>2, <2>3, GoesOn DEF PxeStart, NoTraffic
  <2>5. binds + 1 \in Nat /\ MaxXmit \in Nat /\ <<>> \in Seq(Buffers)
    BY SnpAssumption DEF IInv, Typed
  <2>6. /\ snp' \in SnpRecords /\ snp'.RecycledTxBuf = <<>> /\ snp'.MaxRecycledTxBuf = MaxXmit
        /\ snp'.State = "Started" /\ snp'.events = 0 /\ snp'.buffers = 0 /\ ~snp'.wanted
    <3>1. ASSUME NEW id \in Nat, NEW b \in BOOLEAN, NEW r \in Seq(Buffers), NEW u,
                 u = [[id |-> id, State |-> "Stopped", filter |-> b, MediaPresent |-> b,
                       CurrentAddress |-> "perm", wanted |-> b, buffers |-> 0, events |-> 0,
                       RecycledTxBuf |-> r, MaxRecycledTxBuf |-> MaxXmit] EXCEPT !.State = "Started"]
          PROVE  u \in SnpRecords
      BY <2>5, <3>1 DEF SnpRecords
    <3>2. FALSE \in BOOLEAN
      OBVIOUS
    <3>3. snp' \in SnpRecords
      BY <2>4, <2>5, <3>1, <3>2, Zenon DEF NewSnp
    <3>4. /\ snp'.RecycledTxBuf = <<>> /\ snp'.MaxRecycledTxBuf = MaxXmit
          /\ snp'.State = "Started" /\ snp'.events = 0 /\ snp'.buffers = 0 /\ ~snp'.wanted
      BY <2>4 DEF NewSnp
    <3> QED
      BY <3>3, <3>4
  <2>7. Recycled = <<>>
    BY <1>4 DEF Recycled
  <2>8. PICK todo :
          todo = <<"GetInitInfo", "PxeInit", "PxeGetStnAddr", "PxeShutdown", "PxeStop", "Install">>
    OBVIOUS
  <2>9. todo # <<>> /\ Then(c, todo)
    BY <2>1, <2>4, <2>8, NotEmpty
  <2>10. ASSUME call'.todo = todo PROVE Binding(call)'
    BY <2>6, <2>8, <2>10, SnpThere DEF Binding, InState, Fresh, Clean
  <2> QED
    BY <1>3, <2>3, <2>4, <2>5, <2>6, <2>7, <2>9, <2>10
<1>5. CASE /\ c.todo = <<"GetInitInfo", "PxeInit", "PxeGetStnAddr", "PxeShutdown", "PxeStop", "Install">>
           /\ InState("Started") /\ Fresh
  <2>1. /\ Head(c.todo) = "GetInitInfo" /\ OnError(c) = <<"PxeStop", "Delete">>
        /\ OnSuccess(c) = <<"PxeInit", "PxeGetStnAddr", "PxeShutdown", "PxeStop", "Install">>
    BY <1>5, BindPrograms
  <2>2. GetInitInfo(c) /\ snp # NoSnp
    BY <1>5, <2>1, DoStep DEF InState
  <2>3. /\ Forward /\ UNCHANGED <<queue, nsent, given, binds>>
        /\ (Succeeded => Then(c, OnSuccess(c))) /\ (~Succeeded => Then(c, OnError(c)))
    BY <2>2, Asking, GoesOn DEF GetInitInfo, Ask, NoTraffic
  <2>4. CASE Succeeded
    <3>1. snp' = [snp EXCEPT !.State = "Stopped"]
      BY <2>2, <2>4 DEF GetInitInfo
    <3>2. snp' \in SnpRecords
      BY <1>2, <2>2, <3>1 DEF SnpRecords
    <3>3. /\ snp'.RecycledTxBuf = Recycled /\ snp'.MaxRecycledTxBuf >= MaxXmit
          /\ snp'.State = "Stopped" /\ snp'.events = 0 /\ snp'.buffers = 0 /\ ~snp'.wanted
      BY <1>2, <1>5, <2>2, <3>1 DEF SnpRecords, Fresh, Clean
    <3>4. PICK todo : todo = <<"PxeInit", "PxeGetStnAddr", "PxeShutdown", "PxeStop", "Install">>
      OBVIOUS
    <3>5. todo # <<>> /\ Then(c, todo)
      BY <2>1, <2>3, <2>4, <3>4, NotEmpty
    <3>6. ASSUME call'.todo = todo PROVE Binding(call)'
      BY <3>2, <3>3, <3>4, <3>6, SnpThere DEF Binding, InState, Fresh, Clean
    <3> QED
      BY <1>2, <1>3, <2>2, <2>3, <3>2, <3>3, <3>5, <3>6
  <2>5. CASE ~Succeeded
    <3>1. PICK todo : todo = <<"PxeStop", "Delete">>
      OBVIOUS
    <3>2. todo # <<>> /\ Then(c, todo) /\ snp' = snp
      BY <2>1, <2>2, <2>3, <2>5, <3>1, NotEmpty DEF GetInitInfo
    <3>3. ASSUME call'.todo = todo PROVE Binding(call)'
      BY <2>2, <3>1, <3>2, <3>3 DEF Binding, Undoing
    <3> QED
      BY <1>2, <1>3, <2>2, <2>3, <3>2, <3>3
  <2> QED
    BY <2>4, <2>5
<1>6. CASE /\ c.todo = <<"PxeInit", "PxeGetStnAddr", "PxeShutdown", "PxeStop", "Install">>
           /\ InState("Stopped") /\ Fresh
  <2>1. /\ Head(c.todo) = "PxeInit" /\ OnError(c) = <<"PxeStop", "Delete">>
        /\ OnSuccess(c) = <<"PxeGetStnAddr", "PxeShutdown", "PxeStop", "Install">>
    BY <1>6, BindPrograms
  <2>2. PxeInit(c, "PxeInit", FALSE) /\ ~Beginning(c) /\ snp # NoSnp
    BY <1>6, <2>1, DoStep DEF Beginning, InState
  <2>3. snp.events = 0 /\ snp.buffers = 0 /\ snp.wanted = FALSE
    BY <1>2, <1>6, <2>2 DEF Fresh, Clean, SnpRecords
  <2>4. /\ Forward /\ UNCHANGED <<queue, nsent, given, binds>>
        /\ snp' \in SnpRecords /\ snp'.RecycledTxBuf = Recycled
        /\ snp'.MaxRecycledTxBuf = snp.MaxRecycledTxBuf /\ snp'.wanted = FALSE
        /\ \/ /\ Then(c, OnSuccess(c)) /\ State' = "INITIALIZED" /\ snp'.State = "Initialized"
              /\ snp'.events = 0 /\ snp'.buffers = 0
           \/ Then(c, OnError(c)) /\ snp'.State = snp.State
    <3>1. FALSE \in BOOLEAN
      OBVIOUS
    <3>2. /\ Forward /\ UNCHANGED <<queue, nsent, given, binds>>
          /\ snp' \in SnpRecords /\ snp'.RecycledTxBuf = Recycled
          /\ snp'.MaxRecycledTxBuf = snp.MaxRecycledTxBuf
          /\ ~Beginning(c) => snp'.wanted = snp.wanted
          /\ \E n \in Int :
               /\ n = snp.events + (IF Beginning(c) THEN 1 ELSE 0)
               /\ \/ /\ Then(c, OnSuccess(c)) /\ State' = "INITIALIZED" /\ snp'.State = "Initialized"
                     /\ snp'.events = n /\ snp'.buffers = snp.buffers + Size(snp')
                  \/ /\ Then(c, OnError(c)) /\ snp'.State = snp.State
                     /\ snp'.events = IF c.name = "Initialize" /\ ~FALSE THEN n - 1 ELSE n
                     /\ snp'.buffers = snp.buffers
      BY <2>2, <3>1, InitStep, Zenon
    <3> QED
      BY <2>2, <2>3, <3>2 DEF Size
  <2>5. CASE /\ Then(c, OnSuccess(c)) /\ State' = "INITIALIZED" /\ snp'.State = "Initialized"
             /\ snp'.events = 0 /\ snp'.buffers = 0
    <3>1. PICK todo : todo = <<"PxeGetStnAddr", "PxeShutdown", "PxeStop", "Install">>
      OBVIOUS
    <3>2. todo # <<>> /\ Then(c, todo)
      BY <2>1, <2>5, <3>1, NotEmpty
    <3>3. ASSUME call'.todo = todo PROVE Binding(call)'
      BY <2>4, <2>5, <3>1, <3>3, SnpThere DEF Binding, InState, Fresh, Clean
    <3> QED
      BY <1>2, <1>3, <2>2, <2>4, <2>5, <3>2, <3>3
  <2>6. CASE Then(c, OnError(c)) /\ snp'.State = snp.State
    <3>1. PICK todo : todo = <<"PxeStop", "Delete">>
      OBVIOUS
    <3>2. todo # <<>> /\ Then(c, todo)
      BY <2>1, <2>6, <3>1, NotEmpty
    <3>3. ASSUME call'.todo = todo PROVE Binding(call)'
      BY <2>4, <3>1, <3>3, SnpThere DEF Binding, Undoing
    <3> QED
      BY <1>2, <1>3, <2>2, <2>4, <2>6, <3>2, <3>3
  <2> QED
    BY <2>4, <2>5, <2>6
<1>7. CASE /\ c.todo \in {<<"PxeGetStnAddr", "PxeShutdown", "PxeStop", "Install">>,
                          <<"PxeShutdown", "PxeStop", "Install">>, <<"PxeStop", "Install">>}
           /\ InState("Initialized") /\ Fresh
  <2>1. snp # NoSnp /\ snp.events = 0 /\ snp.buffers = 0 /\ ~snp.wanted /\ snp.State = "Initialized"
    BY <1>7 DEF Fresh, Clean, InState
  <2>2. State = "INITIALIZED"
    BY <2>1 DEF IInv, SnpMatchesUndi
  <2>3. CASE c.todo = <<"PxeGetStnAddr", "PxeShutdown", "PxeStop", "Install">>
    <3>1. /\ Head(c.todo) = "PxeGetStnAddr" /\ OnError(c) = <<"PxeShutdown", "PxeStop", "Delete">>
          /\ OnSuccess(c) = <<"PxeShutdown", "PxeStop", "Install">>
      BY <2>3, BindPrograms
    <3>2. PxeGetStnAddr(c) /\ addr \in Undi!Addresses
      BY <3>1, DoStep DEF IInv, Typed
    <3>3. Forward
      BY <3>2, Commanding, Refused DEF PxeGetStnAddr
    <3>4. /\ UNCHANGED <<queue, nsent, given, binds>>
          /\ (Succeeded => Then(c, OnSuccess(c))) /\ (~Succeeded => Then(c, OnError(c)))
      BY <3>2, GoesOn DEF PxeGetStnAddr, NoTraffic
    <3>5. \/ snp' = snp
          \/ snp' = [snp EXCEPT !.CurrentAddress = addr, !.MediaPresent = @ /\ c.name # "Bind"]
      BY <3>2 DEF PxeGetStnAddr
    <3>6. SameHeld /\ snp'.RecycledTxBuf = Recycled /\ snp'.MaxRecycledTxBuf >= MaxXmit
      BY <1>2, <2>1, <3>2, <3>5 DEF SameHeld, SnpRecords, Undi!Addresses
    <3>7. PICK todo \in {<<"PxeShutdown", "PxeStop", "Install">>, <<"PxeShutdown", "PxeStop", "Delete">>} :
            Then(c, todo)
      BY <3>1, <3>4
    <3>8. todo # <<>>
      BY NotEmpty
    <3>9. ASSUME call'.todo = todo PROVE Binding(call)'
      BY <2>1, <3>6, <3>9, SnpThere DEF SameHeld, Binding, Undoing, InState, Fresh, Clean
    <3> QED
      BY <1>2, <1>3, <2>1, <3>3, <3>4, <3>6, <3>7, <3>8, <3>9 DEF SameHeld
  <2>4. CASE c.todo = <<"PxeShutdown", "PxeStop", "Install">>
    <3>1. PICK todo : todo = <<"PxeStop", "Install">>
      OBVIOUS
    <3>2. Head(c.todo) = "PxeShutdown" /\ OnError(c) = todo /\ OnSuccess(c) = todo /\ todo # <<>>
      BY <2>4, <3>1, BindPrograms, NotEmpty
    <3>3. PxeShutdown(c) /\ Fresh
      BY <1>7, <3>2, DoStep
    <3>4. /\ Forward /\ UNCHANGED <<queue, nsent, given, binds>>
          /\ snp' \in SnpRecords /\ snp'.RecycledTxBuf = Recycled
          /\ snp'.MaxRecycledTxBuf = snp.MaxRecycledTxBuf
          /\ snp'.State = snp.State /\ Fresh' /\ Then(c, todo)
      BY <2>1, <3>2, <3>3, ShuttingDown
    <3>5. ASSUME call'.todo = todo PROVE Binding(call)'
      BY <2>1, <3>1, <3>4, <3>5, SnpThere DEF Binding, InState
    <3> QED
      BY <1>2, <1>3, <2>1, <3>2, <3>4, <3>5
  <2>5. CASE c.todo = <<"PxeStop", "Install">>
    <3>1. PICK todo : todo = <<"Install">>
      OBVIOUS
    <3>2. Head(c.todo) = "PxeStop" /\ OnSuccess(c) = todo /\ todo # <<>>
      BY <2>5, <3>1, BindPrograms, NotEmpty
    <3>3. PxeStop(c)
      BY <3>2, DoStep
    <3>4. /\ Forward /\ UNCHANGED <<queue, nsent, given, binds>>
          /\ snp' \in SnpRecords /\ snp'.RecycledTxBuf = Recycled
          /\ snp'.MaxRecycledTxBuf = snp.MaxRecycledTxBuf
          /\ snp'.State = "Stopped" /\ Then(c, todo)
          /\ snp'.events = snp.events /\ snp'.buffers = snp.buffers /\ snp'.wanted = snp.wanted
      BY <2>1, <2>2, <3>2, <3>3, Stopping
    <3>5. ASSUME call'.todo = todo PROVE Binding(call)'
      BY <2>1, <3>1, <3>4, <3>5, SnpThere DEF Binding, InState, Fresh, Clean
    <3> QED
      BY <1>2, <1>3, <2>1, <3>2, <3>4, <3>5
  <2> QED
    BY <1>7, <2>3, <2>4, <2>5
<1>8. CASE c.todo = <<"Install">> /\ InState("Stopped") /\ Fresh
  <2>1. Head(c.todo) = "Install" /\ OnError(c) = <<"Delete">> /\ OnSuccess(c) = <<>>
    BY <1>8, BindPrograms
  <2>2. Install(c) /\ snp # NoSnp
    BY <1>8, <2>1, DoStep DEF InState
  <2>3. Forward /\ UNCHANGED <<queue, nsent, given, binds, snp>>
    BY <2>2, Idling DEF Install, NoTraffic
  <2>4. Then(c, OnSuccess(c)) \/ Then(c, OnError(c))
    BY <2>2, GoesOn DEF Install
  <2>5. CASE Then(c, OnSuccess(c))
    <3>1. Then(c, <<>>) /\ Settled'
      BY <1>8, <2>1, <2>3, <2>5 DEF Settled, Fresh, Clean, InState
    <3> QED
      BY <1>2, <2>2, <2>3, <3>1, Quietly
  <2>6. CASE Then(c, OnError(c))
    <3>1. PICK todo : todo = <<"Delete">>
      OBVIOUS
    <3>2. todo # <<>> /\ Then(c, todo)
      BY <2>1, <2>6, <3>1, NotEmpty
    <3>3. ASSUME call'.todo = todo PROVE Binding(call)'
      BY <2>2, <2>3, <3>1, <3>3 DEF Binding, Undoing
    <3> QED
      BY <1>2, <1>3, <2>2, <2>3, <3>2, <3>3
  <2> QED
    BY <2>4, <2>5, <2>6
<1>9. CASE c.todo \in Undoing /\ snp # NoSnp
  BY <1>9, UndoKeeps
<1> QED
  BY <1>1, <1>4, <1>5, <1>6, <1>7, <1>8, <1>9 DEF Binding

LEMMA CallKeeps == ASSUME IInv, SnpCall PROVE IInv'
<1>1. PICK c \in Pending : Do(c)
  BY DEF SnpCall
<1>2. Ready(c) /\ WellFormed(c)
  BY PendingReady
<1>3. CASE c.name \in Plain
  <2>1. IsPlain(c)
    BY <1>2, <1>3 DEF IsPlain
  <2> QED
    BY <1>1, <2>1, PlainQuiet, TransmitKeeps, StatusKeeps
<1>4. CASE c.name = "Bind"
  BY <1>1, <1>2, <1>4, BindKeeps
<1>5. CASE c.name = "Unbind"
  <2>1. c.todo \in Undoing /\ snp # NoSnp
    BY <1>2, <1>5 DEF Ready, Plain
  <2> QED
    BY <1>1, <1>2, <1>5, <2>1, UndoKeeps
<1>6. CASE c.name = "Start"
  BY <1>1, <1>2, <1>6, StartKeeps
<1>7. CASE c.name = "Stop"
  BY <1>1, <1>2, <1>7, StopKeeps
<1>8. CASE c.name = "Initialize"
  BY <1>1, <1>2, <1>8, InitializeKeeps
<1>9. CASE c.name = "Shutdown"
  BY <1>1, <1>2, <1>9, ShutdownKeeps
<1> QED
  BY <1>2, <1>3, <1>4, <1>5, <1>6, <1>7, <1>8, <1>9 DEF Ready

(* Steps of the device, of the application, of the notification.           *)
LEMMA Elsewhere ==
  ASSUME IInv, Forward, UNCHANGED <<queue, snp, call, given, binds>>, nsent' \in Nat, nsent' <= Len(queue)
  PROVE  IInv'
<1>1. Typed'
  BY DEF IInv, Typed, Forward
<1>2. SnpMatchesUndi'
  BY DEF IInv, SnpMatchesUndi, Forward
<1>3. CallsFollow'
  <2>1. ResourcesMatchState' = ResourcesMatchState
    BY DEF ResourcesMatchState, Idle
  <2>2. Ready(call)' = Ready(call)
    BY DEF Ready, Binding, Initializing, InState, Fresh, Clean, Holding, Size
  <2> QED
    BY <2>1, <2>2 DEF IInv, CallsFollow, Idle
<1>4. HeldOnce'
  BY DEF IInv, HeldOnce, Recycled
<1> QED
  BY <1>1, <1>2, <1>3, <1>4 DEF IInv

LEMMA InitHolds == Init => IInv
<1> SUFFICES ASSUME Init PROVE IInv
  OBVIOUS
<1>1. queue = <<>> /\ nsent = 0 /\ snp = NoSnp /\ call = Idle /\ binds = 0 /\ given = {}
  BY DEF Init, Tx!Init
<1>2. addr \in Undi!Addresses /\ hwAddr \in Undi!Addresses
  BY DEF Init, Undi!Init, Undi!Addresses
<1>3. WellFormed(Idle)
  BY DEF WellFormed, Idle, Simple, Call, Undi!Addresses
<1>4. Typed
  BY <1>1, <1>2, <1>3 DEF Typed
<1>5. SnpMatchesUndi /\ CallsFollow
  BY <1>1 DEF SnpMatchesUndi, CallsFollow, ResourcesMatchState
<1>6. HeldOnce
  <2>1. ToSet(<<>>) = {} /\ IsInjective(<<>>)
    BY DEF ToSet, IsInjective
  <2> QED
    BY <1>1, <2>1 DEF HeldOnce, Recycled
<1> QED
  BY <1>4, <1>5, <1>6 DEF IInv

LEMMA NextKeeps == IInv /\ [Next]_vars => IInv'
<1> SUFFICES ASSUME IInv, [Next]_vars PROVE IInv'
  OBVIOUS
<1>0. nsent \in Nat /\ nsent <= Len(queue) /\ Len(queue) \in Nat
  BY DEF IInv, Typed
<1>1. CASE SnpCall
  BY <1>1, CallKeeps
<1>2. CASE WaitForPacketNotify
  <2>1. Forward
    BY <1>2, Commanding, Refused DEF WaitForPacketNotify
  <2> QED
    BY <1>0, <1>2, <2>1, Elsewhere DEF WaitForPacketNotify
<1>3. CASE Send
  <2>1. Forward /\ UNCHANGED <<queue, snp, call, given, binds>> /\ nsent' = nsent + 1 /\ nsent < Len(queue)
    BY <1>3, Idling DEF Send, Tx!Send
  <2> QED
    BY <1>0, <2>1, Elsewhere
<1>4. CASE Arrive
  BY <1>0, <1>4, Idling, Elsewhere DEF Arrive
<1>5. CASE StopOrStart
  <2>1. Forward
    BY <1>5, Commanding DEF StopOrStart
  <2> QED
    BY <1>0, <1>5, <2>1, Elsewhere DEF StopOrStart
<1>6. CASE StartDriverInit
  <2>1. Forward
    BY <1>6, Commanding DEF StartDriverInit
  <2> QED
    BY <1>0, <1>6, <2>1, Elsewhere DEF StartDriverInit
<1>7. CASE UNCHANGED vars
  BY <1>0, <1>7, Idling, Elsewhere DEF vars
<1> QED
  BY <1>1, <1>2, <1>3, <1>4, <1>5, <1>6, <1>7 DEF Next

-----------------------------------------------------------------------------
(* The results.                                                            *)

(* Every state of the SNP driver satisfies the inductive invariant: its    *)
(* call in progress is at a point its state and holdings allow.            *)
THEOREM IInvariance == Spec => []IInv
  BY InitHolds, NextKeeps, PTL DEF Spec

(* An SNP that says Started or Initialized has an UNDI that serves it,     *)
(* after any order of calls, failed bindings and driver stops.             *)
THEOREM SnpMatchesUndiHolds == Spec => []SnpMatchesUndi
<1>1. IInv => SnpMatchesUndi
  BY DEF IInv
<1> QED
  BY <1>1, IInvariance, PTL

(* Between two calls the SNP has the event and the buffer of its state:    *)
(* SnpUndi32Initialize gives back what a failed attempt took.              *)
THEOREM ResourcesMatchStateHolds == Spec => []ResourcesMatchState
<1>1. IInv => ResourcesMatchState
  BY DEF IInv, CallsFollow, ResourcesMatchState
<1> QED
  BY <1>1, IInvariance, PTL

LEMMA OnceEach ==
  ASSUME NEW S, NEW s \in Seq(S), IsInjective(s)
  PROVE  Cardinality(ToSet(s)) = Len(s)
<1>1. s \in [1 .. Len(s) -> ToSet(s)] /\ Len(s) \in Nat
  BY Elements
<1>2. \A x \in ToSet(s) : \E i \in 1 .. Len(s) : s[i] = x
  BY Elements
<1>3. s \in Bijection(1 .. Len(s), ToSet(s))
  BY <1>1, <1>2 DEF Bijection, Injection, Surjection
<1> QED
  BY <1>1, <1>3, FS_CountingElements DEF ExistsBijection

LEMMA JoinOnce ==
  ASSUME NEW S, NEW s \in Seq(S), NEW t \in Seq(S), IsInjective(s), IsInjective(t),
         ToSet(s) \cap ToSet(t) = {}
  PROVE  s \o t \in Seq(S) /\ IsInjective(s \o t) /\ ToSet(s \o t) = ToSet(s) \cup ToSet(t)
<1> DEFINE m == Len(s)
           n == Len(t)
           u == s \o t
<1>1. /\ u \in Seq(S) /\ Len(u) = m + n /\ m \in Nat /\ n \in Nat
      /\ \A i \in 1 .. m : u[i] = s[i]
      /\ \A i \in m + 1 .. m + n : u[i] = t[i - m]
  BY ConcatProperties
<1>2. /\ \A x : x \in ToSet(s) <=> \E i \in 1 .. m : s[i] = x
      /\ \A x : x \in ToSet(t) <=> \E i \in 1 .. n : t[i] = x
      /\ \A i, j \in 1 .. m : s[i] = s[j] => i = j
      /\ \A i, j \in 1 .. n : t[i] = t[j] => i = j
  BY Elements DEF IsInjective
<1> HIDE DEF u, m, n
<1>3. \A x : x \in ToSet(u) <=> \E i \in 1 .. m + n : u[i] = x
  <2>1. \A x : x \in ToSet(u) <=> \E i \in 1 .. Len(u) : u[i] = x
    BY <1>1, Elements
  <2> QED
    BY <1>1, <2>1
<1>4. DOMAIN u = 1 .. m + n
  BY <1>1
<1>5. IsInjective(u)
  <2> SUFFICES ASSUME NEW i \in 1 .. m + n, NEW j \in 1 .. m + n, u[i] = u[j] PROVE i = j
    BY <1>4 DEF IsInjective
  <2>1. CASE i \in 1 .. m /\ j \in 1 .. m
    BY <1>1, <1>2, <2>1
  <2>2. CASE i \notin 1 .. m /\ j \notin 1 .. m
    <3>1. i - m \in 1 .. n /\ j - m \in 1 .. n /\ t[i - m] = t[j - m]
      BY <1>1, <2>2
    <3>2. i - m = j - m
      BY <1>2, <3>1
    <3> QED
      BY <1>1, <3>2
  <2>3. ASSUME NEW k \in 1 .. m, NEW l \in 1 .. m + n, l \notin 1 .. m, u[k] = u[l] PROVE FALSE
    <3>0. l \in m + 1 .. m + n /\ l - m \in 1 .. n
      BY <1>1, <2>3
    <3>1. l - m \in 1 .. n /\ t[l - m] = s[k]
      BY <1>1, <2>3, <3>0
    <3>2. s[k] \in ToSet(s) /\ s[k] \in ToSet(t)
      BY <1>2, <3>1
    <3> QED
      BY <3>2
  <2> QED
    BY <2>1, <2>2, <2>3
<1>6. ASSUME NEW x PROVE x \in ToSet(u) <=> x \in ToSet(s) \cup ToSet(t)
  <2>1. ASSUME NEW i \in 1 .. m + n, u[i] = x PROVE x \in ToSet(s) \cup ToSet(t)
    <3>1. CASE i \in 1 .. m
      BY <1>1, <1>2, <2>1, <3>1
    <3>2. CASE i \notin 1 .. m
      <4>1. i - m \in 1 .. n /\ t[i - m] = x
        BY <1>1, <2>1, <3>2
      <4> QED
        BY <1>2, <4>1
    <3> QED
      BY <3>1, <3>2
  <2>2. ASSUME NEW i \in 1 .. m, s[i] = x PROVE x \in ToSet(u)
    BY <1>1, <1>3, <2>2
  <2>3. ASSUME NEW i \in 1 .. n, t[i] = x PROVE x \in ToSet(u)
    <3>1. i + m \in m + 1 .. m + n /\ (i + m) - m = i
      BY <1>1
    <3>2. u[i + m] = x /\ i + m \in 1 .. m + n
      BY <1>1, <2>3, <3>1
    <3> QED
      BY <1>3, <3>2
  <2> QED
    BY <1>2, <1>3, <2>1, <2>2, <2>3
<1> QED
  BY <1>1, <1>5, <1>6 DEF u

(* Every buffer the stack has handed over is in the UNDI's ring or in the  *)
(* array of recycled buffers, once: GetStatus, the growing array and the   *)
(* restart of a stopped driver lose none and return none twice.            *)
THEOREM AccountedHolds == Spec => []Accounted
<1>1. ASSUME IInv PROVE Accounted
  <2>1. queue \in Seq(Buffers) /\ Recycled \in Seq(Buffers)
    BY <1>1 DEF IInv, Typed, Recycled, SnpRecords
  <2>2. /\ IsInjective(queue) /\ IsInjective(Recycled)
        /\ ToSet(queue) \cap ToSet(Recycled) = {}
        /\ given = ToSet(queue) \cup ToSet(Recycled)
    BY <1>1 DEF IInv, HeldOnce
  <2>3. /\ queue \o Recycled \in Seq(Buffers) /\ IsInjective(queue \o Recycled)
        /\ ToSet(queue \o Recycled) = ToSet(queue) \cup ToSet(Recycled)
    BY <2>1, <2>2, JoinOnce
  <2>4. Cardinality(ToSet(queue \o Recycled)) = Len(queue \o Recycled)
    BY <2>3, OnceEach
  <2> QED
    BY <2>2, <2>3, <2>4 DEF Accounted
<1> QED
  BY <1>1, IInvariance, PTL
=============================================================================
