------------------------- MODULE PairingStore_proofs -------------------------
(* Theorems about PairingStore, for any sessions, devices, capabilities,    *)
(* time limits and lags: what the tables hold between transactions, that an *)
(* active credential was confirmed twice in time, and that rows only move   *)
(* forward.                                                                 *)
EXTENDS PairingStore, TLAPS

(* The rows of one pairing, taken together.                                 *)
Row(se, at, cr) ==
    /\ se \in Session /\ at \in Attempt /\ cr \in Credential
    /\ (at.client = NoClient) <=> (cr.status = "none")
    /\ (cr.status = "PENDING") <=> (se.state = "AWAITING_CONFIRM")
    /\ (cr.status \in {"ACTIVE", "REVOKED"}) <=> (se.state = "ACTIVE_PAIR")
    /\ se.state \in {"none", "PAIRING_ACTIVE"} => cr.status = "none"

(* A confirmation came in time from the moment it was recorded, not only    *)
(* once the credential is active.                                           *)
InTime(se, at, cr) ==
    /\ cr.status \in {"PENDING", "ACTIVE", "REVOKED"} =>
          /\ at.clientAt # 0 => at.clientAt < se.expires /\ at.clientAt < at.pendingExpires
          /\ at.hubAt # 0 => /\ at.hubAt < se.expires /\ at.hubAt < at.pendingExpires
                             /\ cr.granted # {} /\ cr.granted \subseteq at.requested
    /\ cr.status \in {"ACTIVE", "REVOKED"} =>
          at.clientAt # 0 /\ at.hubAt # 0 /\ cr.epoch >= 1

Good(se, at, cr) == Row(se, at, cr) /\ InTime(se, at, cr)

Tables == /\ session \in [Sessions -> Session]
          /\ attempt \in [Sessions -> Attempt]
          /\ cred \in [Sessions -> Credential]

PairInv == /\ clock \in Nat \ {0} /\ boot \in Nat \ {0} /\ limitAudit \subseteq Sessions
           /\ Tables
           /\ \A s \in Sessions : Good(session[s], attempt[s], cred[s])
           /\ OneOpenSession

LEMMA AllStates == /\ Open = {"PAIRING_ACTIVE", "AWAITING_CONFIRM"}
                   /\ Terminal = Aborted \cup {"ACTIVE_PAIR"}
                   /\ Aborted \cap (Open \cup {"none", "ACTIVE_PAIR"}) = {}
  BY DEF Open, Terminal, Aborted

------------------------------------------------------------------------------
(* Expiry, which most transactions begin with. *)

LEMMA AbortedRow ==
    ASSUME NEW se, NEW at, NEW cr, Good(se, at, cr), se.state \in Open, NEW to \in Aborted
    PROVE  Good([se EXCEPT !.state = to], at, ExpirePending(cr))
<1>1. [se EXCEPT !.state = to] \in Session
  BY DEF Good, Row, Session, Terminal
<1>2. ExpirePending(cr) \in Credential /\ ExpirePending(cr).status \in {"none", "EXPIRED"}
  BY DEF ExpirePending, Good, Row, Session, Credential, Open
<1>3. ExpirePending(cr).status = "none" <=> cr.status = "none"
  BY DEF ExpirePending, Good, Row, Credential
<1>4. [se EXCEPT !.state = to].state = to
  BY DEF Good, Row, Session
<1>. QED  BY <1>1, <1>2, <1>3, <1>4, AllStates DEF Good, Row, InTime, Aborted

LEMMA LiveTables ==
    ASSUME PairInv, NEW now \in Nat
    PROVE  /\ LiveSession(now) \in [Sessions -> Session]
           /\ LiveCred(now) \in [Sessions -> Credential]
           /\ \A s \in Sessions :
                /\ Good(LiveSession(now)[s], attempt[s], LiveCred(now)[s])
                /\ Due(s, now) => session[s].state \in Open
                /\ Due(s, now) => LiveSession(now)[s].state = "ABORTED_TIMEOUT"
                /\ ~ Due(s, now) => LiveSession(now)[s] = session[s] /\ LiveCred(now)[s] = cred[s]
<1>1. ASSUME NEW s \in Sessions
      PROVE  /\ Good(LiveSession(now)[s], attempt[s], LiveCred(now)[s])
             /\ Due(s, now) => session[s].state \in Open
             /\ Due(s, now) => LiveSession(now)[s].state = "ABORTED_TIMEOUT"
             /\ ~ Due(s, now) => LiveSession(now)[s] = session[s] /\ LiveCred(now)[s] = cred[s]
  <2>1. CASE Due(s, now)
    <3>1. session[s].state \in Open
      BY <2>1 DEF Due, Open
    <3>2. /\ LiveSession(now)[s] = [session[s] EXCEPT !.state = "ABORTED_TIMEOUT"]
          /\ LiveCred(now)[s] = ExpirePending(cred[s])
      BY <2>1 DEF LiveSession, LiveCred
    <3>3. Good([session[s] EXCEPT !.state = "ABORTED_TIMEOUT"], attempt[s],
               ExpirePending(cred[s]))
      BY <3>1, AbortedRow DEF PairInv, Aborted
    <3>4. [session[s] EXCEPT !.state = "ABORTED_TIMEOUT"].state = "ABORTED_TIMEOUT"
      BY DEF PairInv, Good, Row, Session
    <3>. QED  BY <2>1, <3>1, <3>2, <3>3, <3>4
  <2>2. CASE ~ Due(s, now)
    BY <2>2 DEF LiveSession, LiveCred, PairInv
  <2>. QED  BY <2>1, <2>2
<1>2. \A s \in Sessions : LiveSession(now)[s] \in Session /\ LiveCred(now)[s] \in Credential
  BY <1>1 DEF Good, Row
<1>. QED  BY <1>1, <1>2 DEF LiveSession, LiveCred

LEMMA LiveOpen ==
    ASSUME PairInv, NEW now \in Nat, NEW s \in Sessions, LiveSession(now)[s].state \in Open
    PROVE  session[s].state \in Open /\ LiveSession(now)[s] = session[s]
  BY LiveTables, AllStates DEF Aborted

LEMMA ReadTimeIsNat == ASSUME PairInv, NEW now \in ReadTimes PROVE now \in Nat \ {0}
  BY DEF ReadTimes, PairInv

------------------------------------------------------------------------------
(* A transaction changes one pairing, on top of the tables it begins with.  *)

Base(f, g) ==
    /\ f \in [Sessions -> Session] /\ g \in [Sessions -> Credential]
    /\ \A x \in Sessions :
          /\ Good(f[x], attempt[x], g[x])
          /\ f[x].state \in Open => session[x].state \in Open /\ f[x] = session[x]

LEMMA LiveIsBase ==
    ASSUME PairInv, NEW now \in Nat
    PROVE  Base(LiveSession(now), LiveCred(now))
  BY LiveTables, LiveOpen DEF Base

LEMMA TablesAreBase == PairInv => Base(session, cred)
  BY DEF PairInv, Tables, Base

OneRowStep(f, g, s) ==
    /\ session' = [f EXCEPT ![s] = session'[s]]
    /\ attempt' = [attempt EXCEPT ![s] = attempt'[s]]
    /\ cred' = [g EXCEPT ![s] = cred'[s]]
    /\ Good(session'[s], attempt'[s], cred'[s])
    /\ session'[s].state \in Open => f[s].state \in Open /\ session'[s].boot = f[s].boot
    /\ UNCHANGED <<clock, boot>> /\ limitAudit' \subseteq Sessions

LEMMA OneRow ==
    ASSUME PairInv, NEW f, NEW g, Base(f, g), NEW s \in Sessions, OneRowStep(f, g, s)
    PROVE  PairInv'
<1>. USE DEF OneRowStep
<1>1. session'[s] \in Session /\ attempt'[s] \in Attempt /\ cred'[s] \in Credential
  BY DEF Good, Row
<1>2. Tables'
  BY <1>1 DEF Tables, Base, PairInv
<1>3. \A x \in Sessions \ {s} :
        session'[x] = f[x] /\ attempt'[x] = attempt[x] /\ cred'[x] = g[x]
  BY DEF Base, PairInv, Tables
<1>4. \A x \in Sessions : Good(session'[x], attempt'[x], cred'[x])
  BY <1>3 DEF Base
<1>5. \A x \in Sessions : session'[x].state \in Open =>
        session[x].state \in Open /\ session'[x].boot = session[x].boot
  BY <1>3 DEF Base
<1>6. OneOpenSession'
  BY <1>5 DEF OneOpenSession, PairInv
<1>. QED  BY <1>2, <1>4, <1>6 DEF PairInv

------------------------------------------------------------------------------
(* Every operation keeps the invariant. *)

LEMMA TickKeeps == PairInv /\ Tick => PairInv'
  BY DEF PairInv, Tables, Tick, OneOpenSession

LEMMA StartRuntimeKeeps ==
    ASSUME PairInv, StartRuntime
    PROVE  PairInv'
<1>. USE DEF StartRuntime
<1>1. ASSUME NEW s \in Sessions
      PROVE  Good(session'[s], attempt'[s], cred'[s]) /\ session'[s].state \notin Open
  <2>1. CASE session[s].state \in Open
    <3>1. /\ session'[s] = [session[s] EXCEPT !.state = "ABORTED_HUB_RESTART"]
          /\ cred'[s] = ExpirePending(cred[s]) /\ attempt'[s] = attempt[s]
      BY <2>1
    <3>2. Good(session'[s], attempt'[s], cred'[s])
      BY <2>1, <3>1, AbortedRow DEF PairInv, Aborted
    <3>3. session'[s].state = "ABORTED_HUB_RESTART"
      BY <3>1 DEF PairInv, Tables, Session
    <3>. QED  BY <3>2, <3>3 DEF Open
  <2>2. CASE session[s].state \notin Open
    BY <2>2 DEF PairInv
  <2>. QED  BY <2>1, <2>2
<1>2. Tables'
  <2>1. \A s \in Sessions : session'[s] \in Session /\ cred'[s] \in Credential
    BY <1>1 DEF Good, Row
  <2>. QED  BY <2>1 DEF Tables, PairInv
<1>. QED  BY <1>1, <1>2 DEF PairInv, OneOpenSession

LEMMA ExpireKeeps ==
    ASSUME PairInv, ExpireDueSessions
    PROVE  PairInv'
<1>1. PICK now \in ReadTimes : /\ session' = LiveSession(now) /\ cred' = LiveCred(now)
                               /\ UNCHANGED <<clock, boot, attempt, limitAudit>>
  BY DEF ExpireDueSessions
<1>2. now \in Nat
  BY ReadTimeIsNat
<1>3. Tables' /\ \A s \in Sessions : Good(session'[s], attempt'[s], cred'[s])
  BY <1>1, <1>2, LiveTables DEF Tables, PairInv
<1>4. \A s \in Sessions : session'[s].state \in Open =>
        session[s].state \in Open /\ session'[s] = session[s]
  BY <1>1, <1>2, LiveOpen
<1>5. OneOpenSession'
  BY <1>1, <1>4 DEF OneOpenSession, PairInv
<1>. QED  BY <1>1, <1>3, <1>5 DEF PairInv

LEMMA CreateKeeps ==
    ASSUME PairInv, PairingAssumption, NEW s \in Sessions, CreatePairingSession(s)
    PROVE  PairInv'
<1>1. PICK now \in ReadTimes :
        /\ session[s].state = "none"
        /\ NoneOpen(now)
        /\ session' = [LiveSession(now) EXCEPT ![s] =
                          [state |-> "PAIRING_ACTIVE", boot |-> boot,
                           expires |-> now + SessionTTL]]
        /\ cred' = LiveCred(now)
        /\ UNCHANGED <<clock, boot, attempt, limitAudit>>
  BY DEF CreatePairingSession
<1>2. now \in Nat
  BY ReadTimeIsNat
<1>3. session'[s] = [state |-> "PAIRING_ACTIVE", boot |-> boot, expires |-> now + SessionTTL]
  BY <1>1, <1>2, LiveTables
<1>4. session'[s] \in Session
  BY <1>2, <1>3, PairingAssumption DEF Session, PairInv, Open
<1>5. cred'[s] = cred[s] /\ cred[s].status = "none" /\ attempt'[s] = attempt[s]
  <2>1. ~ Due(s, now)
    BY <1>1, <1>2, LiveTables DEF Open
  <2>. QED  BY <1>1, <1>2, <2>1, LiveTables DEF PairInv, Good, Row
<1>6. Good(session'[s], attempt'[s], cred'[s])
  BY <1>3, <1>4, <1>5 DEF PairInv, Good, Row, InTime
<1>7. \A x \in Sessions \ {s} : session'[x] = LiveSession(now)[x]
  BY <1>1, <1>2, LiveTables
<1>8. \A x \in Sessions : Good(session'[x], attempt'[x], cred'[x])
  BY <1>1, <1>2, <1>6, <1>7, LiveTables
<1>9. Tables'
  BY <1>1, <1>2, <1>4, LiveTables DEF Tables, PairInv
<1>10. OneOpenSession'
  <2>1. \A x \in Sessions \ {s} : session'[x].state \notin Open
    BY <1>1, <1>7 DEF NoneOpen
  <2>. QED  BY <1>1, <1>3, <2>1 DEF OneOpenSession
<1>. QED  BY <1>1, <1>8, <1>9, <1>10 DEF PairInv

LEMMA HelloKeeps ==
    ASSUME PairInv, PairingAssumption, NEW s \in Sessions, NEW k \in Clients,
           NEW requested \in Grants, RegisterClientHello(s, k, requested)
    PROVE  PairInv'
<1>. DEFINE Hello(now) == [client |-> k, requested |-> requested, clientAt |-> 0,
                           hubAt |-> 0, pendingExpires |-> now + PendingTTL,
                           mismatches |-> 0]
            Pending == [status |-> "PENDING", epoch |-> 0, granted |-> {}]
<1>1. PICK now \in ReadTimes :
        /\ Usable(s, now) /\ session[s].state \in Open
        /\ session' = [LiveSession(now) EXCEPT ![s].state = "AWAITING_CONFIRM"]
        /\ attempt' = [attempt EXCEPT ![s] = Hello(now)]
        /\ cred' = [LiveCred(now) EXCEPT ![s] = Pending]
        /\ UNCHANGED <<clock, boot, limitAudit>>
  BY DEF RegisterClientHello
<1>2. now \in Nat
  BY ReadTimeIsNat
<1>3. LiveSession(now)[s] = session[s] /\ session[s] \in Session
  BY <1>1, <1>2, LiveTables DEF Usable, PairInv, Tables
<1>4. /\ session'[s] = [session[s] EXCEPT !.state = "AWAITING_CONFIRM"]
      /\ attempt'[s] = Hello(now) /\ cred'[s] = Pending
  BY <1>1, <1>2, <1>3, LiveTables DEF PairInv, Tables
<1>5. /\ session'[s] \in Session /\ session'[s].state = "AWAITING_CONFIRM"
      /\ session'[s].boot = session[s].boot
  BY <1>3, <1>4 DEF Session, Open
<1>6. Hello(now) \in Attempt
  BY <1>2, PairingAssumption DEF Attempt, Grants
<1>7. Pending \in Credential
  BY DEF Credential
<1>8. Good(session'[s], attempt'[s], cred'[s])
  BY <1>4, <1>5, <1>6, <1>7, PairingAssumption DEF Good, Row, InTime
<1>9. session' = [LiveSession(now) EXCEPT ![s] = session'[s]]
  BY <1>1, <1>2, <1>3, <1>4, LiveTables
<1>10. OneRowStep(LiveSession(now), LiveCred(now), s)
  BY <1>1, <1>3, <1>4, <1>5, <1>8, <1>9 DEF OneRowStep, PairInv
<1>. QED  BY <1>2, <1>10, LiveIsBase, OneRow

(* A confirmation, whoever gives it: at is the attempt with it recorded.    *)
LEMMA ConfirmedRow ==
    ASSUME PairInv, NEW s \in Sessions, NEW now \in Nat, Usable(s, now), NEW at, NEW granted,
           UNCHANGED <<clock, boot, limitAudit>>,
           attempt' = [attempt EXCEPT ![s] = at], ActivateIfConfirmed(s, now, granted),
           at \in Attempt, at.client = attempt[s].client, at.client # NoClient,
           granted \in SUBSET Capabilities,
           InTime(session[s], at, [cred[s] EXCEPT !.granted = granted])
    PROVE  PairInv'
<1>1. LiveSession(now)[s] = session[s] /\ LiveCred(now)[s] = cred[s]
  BY LiveTables DEF Usable
<1>2. /\ Good(session[s], attempt[s], cred[s]) /\ session[s] \in Session
      /\ cred[s] \in Credential
  BY DEF PairInv, Tables
<1>3. attempt'[s] = at
  BY DEF PairInv, Tables
<1>4. CASE at.clientAt # 0 /\ at.hubAt # 0 /\ cred[s].status = "PENDING"
  <2>1. /\ cred' = [LiveCred(now) EXCEPT ![s] =
                       [status |-> "ACTIVE", epoch |-> 1, granted |-> granted]]
        /\ session' = [LiveSession(now) EXCEPT ![s].state = "ACTIVE_PAIR"]
    BY <1>3, <1>4 DEF ActivateIfConfirmed
  <2>2. /\ session'[s] = [session[s] EXCEPT !.state = "ACTIVE_PAIR"]
        /\ cred'[s] = [status |-> "ACTIVE", epoch |-> 1, granted |-> granted]
    BY <2>1, <1>1, LiveTables
  <2>3. session'[s] \in Session /\ cred'[s] \in Credential
    BY <1>2, <2>2 DEF Session, Credential, Terminal
  <2>4. /\ session'[s].state = "ACTIVE_PAIR" /\ session'[s].expires = session[s].expires
        /\ cred'[s].status = "ACTIVE" /\ cred'[s].epoch = 1 /\ cred'[s].granted = granted
    BY <1>2, <2>2 DEF Session
  <2>5. /\ [cred[s] EXCEPT !.granted = granted].status = "PENDING"
        /\ [cred[s] EXCEPT !.granted = granted].granted = granted
    BY <1>2, <1>4 DEF Credential
  <2>6. Row(session'[s], at, cred'[s])
    BY <2>3, <2>4 DEF Row
  <2>7. InTime(session'[s], at, cred'[s])
    BY <1>4, <2>4, <2>5 DEF InTime
  <2>8. session' = [LiveSession(now) EXCEPT ![s] = session'[s]]
    BY <2>1, <2>2, <1>1, LiveTables
  <2>9. cred' = [LiveCred(now) EXCEPT ![s] = cred'[s]]
    BY <2>1, <2>2
  <2>10. OneRowStep(LiveSession(now), LiveCred(now), s)
    BY <1>3, <2>4, <2>6, <2>7, <2>8, <2>9 DEF OneRowStep, Good, PairInv, Open
  <2>. QED  BY <2>10, LiveIsBase, OneRow
<1>5. CASE ~ (at.clientAt # 0 /\ at.hubAt # 0 /\ cred[s].status = "PENDING")
  <2>1. /\ cred' = [LiveCred(now) EXCEPT ![s].granted = granted]
        /\ session' = LiveSession(now)
    BY <1>3, <1>5 DEF ActivateIfConfirmed
  <2>2. /\ session'[s] = session[s]
        /\ cred'[s] = [cred[s] EXCEPT !.granted = granted]
    BY <2>1, <1>1, LiveTables
  <2>3. cred'[s] \in Credential /\ cred'[s].status = cred[s].status
    BY <1>2, <2>2 DEF Credential
  <2>4. Row(session'[s], at, cred'[s])
    BY <1>2, <2>2, <2>3 DEF Good, Row
  <2>5. session' = [LiveSession(now) EXCEPT ![s] = session'[s]]
    BY <2>1, <2>2, <1>1, LiveTables
  <2>6. cred' = [LiveCred(now) EXCEPT ![s] = cred'[s]]
    BY <2>1, <2>2, <1>1, LiveTables
  <2>7. InTime(session'[s], at, cred'[s])
    BY <2>2
  <2>8. OneRowStep(LiveSession(now), LiveCred(now), s)
    BY <1>1, <1>3, <2>2, <2>4, <2>5, <2>6, <2>7 DEF OneRowStep, Good, PairInv
  <2>. QED  BY <2>8, LiveIsBase, OneRow
<1>. QED  BY <1>4, <1>5

(* A usable session that is not yet paired has not run out.                 *)
LEMMA UsableIsInTime ==
    ASSUME PairInv, NEW s \in Sessions, NEW now \in Nat, Usable(s, now),
           attempt[s].client # NoClient
    PROVE  \/ /\ cred[s].status = "PENDING"
              /\ now < session[s].expires /\ now < attempt[s].pendingExpires
           \/ /\ cred[s].status \in {"ACTIVE", "REVOKED"}
              /\ attempt[s].clientAt # 0 /\ attempt[s].hubAt # 0
<1>1. Good(session[s], attempt[s], cred[s]) /\ session[s] \in Session /\ attempt[s] \in Attempt
  BY DEF PairInv, Tables
<1>2. CASE session[s].state = "AWAITING_CONFIRM"
  <2>1. session[s].expires \in Nat /\ attempt[s].pendingExpires \in Nat
    BY <1>1 DEF Session, Attempt
  <2>2. now < session[s].expires /\ now < attempt[s].pendingExpires
    BY <1>2, <2>1 DEF Usable, Due, Open
  <2>. QED  BY <1>1, <1>2, <2>2 DEF Good, Row
<1>3. CASE session[s].state = "ACTIVE_PAIR"
  BY <1>1, <1>3 DEF Good, Row, InTime
<1>4. session[s].state # "PAIRING_ACTIVE"
  BY <1>1 DEF Good, Row
<1>. QED  BY <1>2, <1>3, <1>4 DEF Usable, Open

LEMMA ConfirmByClientKeeps ==
    ASSUME PairInv, NEW s \in Sessions, ConfirmByClient(s)
    PROVE  PairInv'
<1>1. PICK now \in ReadTimes :
        /\ Usable(s, now) /\ attempt[s].client # NoClient
        /\ attempt' = [attempt EXCEPT ![s].clientAt = IF @ = 0 THEN now ELSE @]
        /\ ActivateIfConfirmed(s, now, cred[s].granted)
        /\ UNCHANGED <<clock, boot, limitAudit>>
  BY DEF ConfirmByClient
<1>2. now \in Nat \ {0}
  BY ReadTimeIsNat
<1>. DEFINE at == [attempt[s] EXCEPT !.clientAt = IF @ = 0 THEN now ELSE @]
<1>3. /\ Good(session[s], attempt[s], cred[s]) /\ attempt[s] \in Attempt
      /\ cred[s] \in Credential
  BY DEF PairInv, Tables
<1>4. attempt' = [attempt EXCEPT ![s] = at]
  BY <1>1
<1>5. /\ at \in Attempt /\ at.client = attempt[s].client /\ at.hubAt = attempt[s].hubAt
      /\ at.clientAt = (IF attempt[s].clientAt = 0 THEN now ELSE attempt[s].clientAt)
      /\ at.requested = attempt[s].requested
      /\ at.pendingExpires = attempt[s].pendingExpires
  BY <1>2, <1>3 DEF Attempt
<1>6. [cred[s] EXCEPT !.granted = cred[s].granted] = cred[s]
      /\ cred[s].granted \in SUBSET Capabilities
  BY <1>3 DEF Credential
<1>7. InTime(session[s], at, [cred[s] EXCEPT !.granted = cred[s].granted])
  BY <1>1, <1>2, <1>3, <1>5, <1>6, UsableIsInTime DEF Good, InTime
<1>. HIDE DEF at
<1>. QED  BY <1>1, <1>2, <1>4, <1>5, <1>6, <1>7, ConfirmedRow

LEMMA ConfirmByHubKeeps ==
    ASSUME PairInv, NEW s \in Sessions, NEW granted \in Grants, ConfirmByHub(s, granted)
    PROVE  PairInv'
<1>. DEFINE grant == IF attempt[s].hubAt = 0 THEN granted ELSE cred[s].granted
<1>1. PICK now \in ReadTimes :
        /\ Usable(s, now) /\ attempt[s].client # NoClient
        /\ granted \subseteq attempt[s].requested
        /\ attempt' = [attempt EXCEPT ![s].hubAt = IF @ = 0 THEN now ELSE @]
        /\ ActivateIfConfirmed(s, now, grant)
        /\ UNCHANGED <<clock, boot, limitAudit>>
  BY DEF ConfirmByHub
<1>2. now \in Nat \ {0}
  BY ReadTimeIsNat
<1>. DEFINE at == [attempt[s] EXCEPT !.hubAt = IF @ = 0 THEN now ELSE @]
<1>3. /\ Good(session[s], attempt[s], cred[s]) /\ attempt[s] \in Attempt
      /\ cred[s] \in Credential
  BY DEF PairInv, Tables
<1>4. attempt' = [attempt EXCEPT ![s] = at]
  BY <1>1
<1>5. /\ at \in Attempt /\ at.client = attempt[s].client
      /\ at.clientAt = attempt[s].clientAt
      /\ at.hubAt = (IF attempt[s].hubAt = 0 THEN now ELSE attempt[s].hubAt)
      /\ at.requested = attempt[s].requested
      /\ at.pendingExpires = attempt[s].pendingExpires
  BY <1>2, <1>3 DEF Attempt
<1>6. /\ [cred[s] EXCEPT !.granted = grant].granted = grant
      /\ [cred[s] EXCEPT !.granted = grant].status = cred[s].status
      /\ [cred[s] EXCEPT !.granted = grant].epoch = cred[s].epoch
      /\ grant \in SUBSET Capabilities
  BY <1>3 DEF Credential, Grants
<1>7. InTime(session[s], at, [cred[s] EXCEPT !.granted = grant])
  <2>1. granted # {}
    BY DEF Grants
  <2>. HIDE DEF at
  <2>2. CASE attempt[s].hubAt = 0
    BY <1>1, <1>2, <1>3, <1>5, <1>6, <2>1, <2>2, UsableIsInTime DEF Good, InTime
  <2>3. CASE attempt[s].hubAt # 0
    BY <1>1, <1>2, <1>3, <1>5, <1>6, <2>3, UsableIsInTime DEF Good, InTime
  <2>. QED  BY <2>2, <2>3
<1>. HIDE DEF at, grant
<1>. QED  BY <1>1, <1>2, <1>4, <1>5, <1>6, <1>7, ConfirmedRow

LEMMA AbortKeeps ==
    ASSUME PairInv, NEW s \in Sessions, NEW to \in Aborted, AbortPairingSession(s, to)
    PROVE  PairInv'
<1>. USE DEF AbortPairingSession
<1>1. /\ session'[s] = [session[s] EXCEPT !.state = to]
      /\ cred'[s] = ExpirePending(cred[s]) /\ attempt'[s] = attempt[s]
  BY DEF PairInv, Tables
<1>2. Good(session'[s], attempt'[s], cred'[s])
  BY <1>1, AbortedRow DEF PairInv
<1>3. session'[s].state = to
  BY <1>1 DEF PairInv, Tables, Session
<1>4. /\ session' = [session EXCEPT ![s] = session'[s]]
      /\ cred' = [cred EXCEPT ![s] = cred'[s]]
      /\ attempt' = [attempt EXCEPT ![s] = attempt'[s]]
  BY <1>1 DEF PairInv, Tables
<1>5. OneRowStep(session, cred, s)
  BY <1>2, <1>3, <1>4, AllStates DEF OneRowStep, PairInv
<1>. QED  BY <1>5, TablesAreBase, OneRow

LEMMA MismatchKeeps ==
    ASSUME PairInv, PairingAssumption, NEW s \in Sessions, MismatchByClient(s)
    PROVE  PairInv'
<1>. DEFINE count == attempt[s].mismatches + 1
            abort == count >= MismatchLimit /\ session[s].state \in Open
<1>1. PICK now \in ReadTimes :
        /\ Usable(s, now) /\ attempt[s].client # NoClient /\ CountWithinCheck(s)
        /\ attempt' = [attempt EXCEPT ![s].mismatches = count]
        /\ session' = [LiveSession(now) EXCEPT ![s].state =
                          IF abort THEN "ABORTED_MISMATCH" ELSE @]
        /\ cred' = [LiveCred(now) EXCEPT ![s] = IF abort THEN ExpirePending(@) ELSE @]
        /\ limitAudit' = IF count >= MismatchLimit THEN limitAudit \cup {s} ELSE limitAudit
        /\ UNCHANGED <<clock, boot>>
  BY DEF MismatchByClient
<1>2. now \in Nat
  BY ReadTimeIsNat
<1>3. LiveSession(now)[s] = session[s] /\ LiveCred(now)[s] = cred[s]
  BY <1>1, <1>2, LiveTables DEF Usable
<1>4. /\ Good(session[s], attempt[s], cred[s]) /\ attempt[s] \in Attempt
      /\ session[s] \in Session
  BY DEF PairInv, Tables
<1>. DEFINE at == [attempt[s] EXCEPT !.mismatches = count]
<1>5. attempt'[s] = at
  BY <1>1 DEF PairInv, Tables
<1>6. /\ at \in Attempt /\ at.client = attempt[s].client /\ at.requested = attempt[s].requested
      /\ at.clientAt = attempt[s].clientAt /\ at.hubAt = attempt[s].hubAt
      /\ at.pendingExpires = attempt[s].pendingExpires
  BY <1>1, <1>4, PairingAssumption DEF Attempt, CountWithinCheck
<1>7. Good(session[s], at, cred[s])
  BY <1>4, <1>6 DEF Good, Row, InTime
<1>. HIDE DEF at
<1>8. /\ session'[s] = IF abort THEN [session[s] EXCEPT !.state = "ABORTED_MISMATCH"]
                       ELSE session[s]
      /\ cred'[s] = IF abort THEN ExpirePending(cred[s]) ELSE cred[s]
  BY <1>1, <1>2, <1>3, <1>4, LiveTables DEF Session
<1>9. Good(session'[s], attempt'[s], cred'[s])
  <2>1. CASE abort
    <3>1. Good([session[s] EXCEPT !.state = "ABORTED_MISMATCH"], at, ExpirePending(cred[s]))
      BY <2>1, <1>7, AbortedRow DEF Aborted
    <3>. QED  BY <2>1, <3>1, <1>5, <1>8
  <2>2. CASE ~ abort
    BY <2>2, <1>5, <1>7, <1>8
  <2>. QED  BY <2>1, <2>2
<1>10. session'[s].state \in Open => session'[s] = session[s]
  BY <1>4, <1>8 DEF Session, Open
<1>11. /\ session' = [LiveSession(now) EXCEPT ![s] = session'[s]]
       /\ cred' = [LiveCred(now) EXCEPT ![s] = cred'[s]]
  BY <1>1, <1>2, <1>3, <1>8, LiveTables
<1>12. attempt' = [attempt EXCEPT ![s] = attempt'[s]]
  BY <1>1 DEF PairInv, Tables
<1>13. limitAudit' \subseteq Sessions
  BY <1>1 DEF PairInv
<1>14. OneRowStep(LiveSession(now), LiveCred(now), s)
  BY <1>1, <1>3, <1>9, <1>10, <1>11, <1>12, <1>13 DEF OneRowStep
<1>. QED  BY <1>2, <1>14, LiveIsBase, OneRow

(* Revoking or regranting an active credential touches its row alone.       *)
LEMMA CredentialKeeps ==
    ASSUME PairInv, NEW s \in Sessions, cred[s].status = "ACTIVE",
           UNCHANGED <<clock, boot, session, attempt, limitAudit>>, NEW cr \in Credential,
           cred' = [cred EXCEPT ![s] = cr], cr.status \in {"ACTIVE", "REVOKED"},
           cr.granted # {}, cr.granted \subseteq attempt[s].requested, cr.epoch >= 1
    PROVE  PairInv'
<1>1. Good(session[s], attempt[s], cred[s])
  BY DEF PairInv
<1>2. cred'[s] = cr
  BY DEF PairInv, Tables
<1>3. Good(session[s], attempt[s], cr)
  BY <1>1 DEF Good, Row, InTime
<1>4. OneRowStep(session, cred, s)
  BY <1>2, <1>3 DEF OneRowStep, PairInv, Tables
<1>. QED  BY <1>4, TablesAreBase, OneRow

LEMMA RevokeKeeps ==
    ASSUME PairInv, NEW s \in Sessions, RevokeDeviceCredential(s)
    PROVE  PairInv'
<1>. DEFINE cr == [cred[s] EXCEPT !.status = "REVOKED"]
<1>1. Good(session[s], attempt[s], cred[s]) /\ cred[s] \in Credential
  BY DEF PairInv, Tables
<1>2. /\ cr \in Credential /\ cr.status = "REVOKED" /\ cr.granted = cred[s].granted
      /\ cr.epoch = cred[s].epoch
  BY <1>1 DEF Credential
<1>3. /\ cr.granted # {} /\ cr.granted \subseteq attempt[s].requested /\ cr.epoch >= 1
      /\ cred[s].status = "ACTIVE"
  BY <1>1, <1>2 DEF RevokeDeviceCredential, Good, InTime
<1>4. cred' = [cred EXCEPT ![s] = cr] /\ UNCHANGED <<clock, boot, session, attempt, limitAudit>>
  BY DEF RevokeDeviceCredential
<1>. HIDE DEF cr
<1>. QED  BY <1>2, <1>3, <1>4, CredentialKeeps

LEMMA UpdateKeeps ==
    ASSUME PairInv, NEW s \in Sessions, NEW granted \in Grants,
           UpdateDeviceCapabilities(s, granted)
    PROVE  PairInv'
<1>. DEFINE cr == [status |-> cred[s].status, epoch |-> cred[s].epoch + 1, granted |-> granted]
<1>1. Good(session[s], attempt[s], cred[s]) /\ cred[s] \in Credential
  BY DEF PairInv, Tables
<1>2. /\ cr \in Credential /\ cr.status = cred[s].status /\ cr.granted = granted
      /\ cr.epoch = cred[s].epoch + 1
  <2>1. granted \in SUBSET Capabilities
    BY DEF Grants
  <2>. QED  BY <1>1, <2>1 DEF Credential
<1>3. cr.epoch >= 1
  BY <1>1, <1>2 DEF Credential
<1>4. /\ granted # {} /\ granted \subseteq attempt[s].requested /\ cred[s].status = "ACTIVE"
      /\ UNCHANGED <<clock, boot, session, attempt, limitAudit>>
  BY DEF UpdateDeviceCapabilities, Grants
<1>5. cred' = [cred EXCEPT ![s] = cr]
  BY <1>1 DEF UpdateDeviceCapabilities, Credential, PairInv, Tables
<1>. HIDE DEF cr
<1>. QED  BY <1>2, <1>3, <1>4, <1>5, CredentialKeeps

LEMMA PairInitial == ASSUME PairingAssumption, Init PROVE PairInv
<1>1. ASSUME NEW s \in Sessions
      PROVE  /\ session[s] = [state |-> "none", boot |-> 0, expires |-> 0]
             /\ attempt[s] = [client |-> NoClient, requested |-> {}, clientAt |-> 0,
                              hubAt |-> 0, pendingExpires |-> 0, mismatches |-> 0]
             /\ cred[s] = [status |-> "none", epoch |-> 0, granted |-> {}]
  BY DEF Init
<1>2. /\ [state |-> "none", boot |-> 0, expires |-> 0] \in Session
      /\ [status |-> "none", epoch |-> 0, granted |-> {}] \in Credential
      /\ [client |-> NoClient, requested |-> {}, clientAt |-> 0,
          hubAt |-> 0, pendingExpires |-> 0, mismatches |-> 0] \in Attempt
  BY PairingAssumption DEF Session, Credential, Attempt
<1>3. Tables
  BY <1>2 DEF Init, Tables
<1>4. \A s \in Sessions : Good(session[s], attempt[s], cred[s]) /\ session[s].state \notin Open
  BY <1>1, <1>2 DEF Good, Row, InTime, Open
<1>5. OneOpenSession
  BY <1>4 DEF OneOpenSession
<1>6. clock \in Nat \ {0} /\ boot \in Nat \ {0} /\ limitAudit \subseteq Sessions
  BY DEF Init
<1>. QED  BY <1>3, <1>4, <1>5, <1>6 DEF PairInv

LEMMA PairStep == PairInv /\ [Next]_vars => PairInv'
<1>. SUFFICES ASSUME PairInv, [Next]_vars PROVE PairInv'
  OBVIOUS
<1>1. ASSUME Next PROVE PairInv'
  BY <1>1, PairingAssumption, TickKeeps, StartRuntimeKeeps, ExpireKeeps, CreateKeeps, HelloKeeps,
     ConfirmByClientKeeps, MismatchKeeps, ConfirmByHubKeeps, UpdateKeeps, AbortKeeps,
     RevokeKeeps
  DEF Next
<1>2. ASSUME UNCHANGED vars PROVE PairInv'
  BY <1>2 DEF vars, PairInv, Tables, OneOpenSession
<1>. QED  BY <1>1, <1>2

------------------------------------------------------------------------------
(* No operation takes a row back. *)

Forward(x) ==
    /\ session[x].state \in Terminal => session'[x] = session[x]
    /\ cred[x].status \in {"REVOKED", "EXPIRED"} => cred'[x] = cred[x]
    /\ attempt[x].client # NoClient => attempt'[x].client = attempt[x].client
    /\ cred[x].status = "ACTIVE" =>
          \/ cred'[x].granted = cred[x].granted /\ cred'[x].epoch = cred[x].epoch
          \/ cred'[x].epoch = cred[x].epoch + 1

(* A credential that is no longer pending belongs to a session that ended.  *)
LEMMA SettledTogether ==
    ASSUME PairInv, NEW x \in Sessions
    PROVE  /\ cred[x].status \in {"REVOKED", "EXPIRED", "ACTIVE"} =>
                session[x].state \in Terminal
           /\ cred[x].status = "EXPIRED" => session[x].state \in Aborted
           /\ session[x].state \in Terminal => session[x].state \notin Open
<1>1. Row(session[x], attempt[x], cred[x])
  BY DEF PairInv, Good
<1>2. session[x].state \in {"none"} \cup Open \cup Terminal
  BY <1>1 DEF Row, Session
<1>. QED  BY <1>1, <1>2, AllStates DEF Row

(* Expiry alone is forward.                                                 *)
LEMMA LiveForward ==
    ASSUME PairInv, NEW now \in Nat, NEW x \in Sessions,
           session'[x] = LiveSession(now)[x], cred'[x] = LiveCred(now)[x],
           attempt'[x].client = attempt[x].client
    PROVE  Forward(x)
<1>1. session[x].state \notin Open => session'[x] = session[x] /\ cred'[x] = cred[x]
  BY LiveTables
<1>. QED  BY <1>1, SettledTogether DEF Forward

LEMMA SameForward ==
    ASSUME NEW x, session'[x] = session[x], cred'[x] = cred[x],
           attempt'[x].client = attempt[x].client
    PROVE  Forward(x)
  BY DEF Forward

LEMMA OpenForward ==
    ASSUME PairInv, NEW x \in Sessions, session[x].state \in Open,
           attempt[x].client # NoClient => attempt'[x].client = attempt[x].client
    PROVE  Forward(x)
  BY SettledTogether DEF Forward

LEMMA SessionsForward ==
    ASSUME PairInv, NEW x \in Sessions,
           StartRuntime \/ ExpireDueSessions \/ Tick \/ UNCHANGED vars
    PROVE  Forward(x)
<1>1. CASE StartRuntime
  <2>1. CASE session[x].state \in Open
    BY <1>1, <2>1, OpenForward DEF StartRuntime
  <2>2. CASE session[x].state \notin Open
    BY <1>1, <2>2, SameForward DEF StartRuntime, PairInv, Tables
  <2>. QED  BY <2>1, <2>2
<1>2. CASE ExpireDueSessions
  BY <1>2, ReadTimeIsNat, LiveForward DEF ExpireDueSessions
<1>3. CASE Tick \/ UNCHANGED vars
  BY <1>3, SameForward DEF Tick, vars
<1>. QED  BY <1>1, <1>2, <1>3

LEMMA CreateForward ==
    ASSUME PairInv, NEW x \in Sessions, NEW s \in Sessions, CreatePairingSession(s)
    PROVE  Forward(x)
<1>1. PICK now \in ReadTimes :
        /\ session[s].state = "none"
        /\ session' = [LiveSession(now) EXCEPT ![s] =
                          [state |-> "PAIRING_ACTIVE", boot |-> boot,
                           expires |-> now + SessionTTL]]
        /\ cred' = LiveCred(now) /\ attempt' = attempt
  BY DEF CreatePairingSession
<1>2. now \in Nat
  BY ReadTimeIsNat
<1>3. CASE x = s
  <2>1. cred[s].status = "none"
    BY <1>1 DEF PairInv, Good, Row
  <2>. QED  BY <1>1, <1>3, <2>1 DEF Forward, Terminal, Aborted
<1>4. CASE x # s
  BY <1>1, <1>2, <1>4, LiveTables, LiveForward
<1>. QED  BY <1>3, <1>4

LEMMA HelloForward ==
    ASSUME PairInv, NEW x \in Sessions, NEW s \in Sessions, NEW k \in Clients,
           NEW requested \in Grants, RegisterClientHello(s, k, requested)
    PROVE  Forward(x)
<1>1. PICK now \in ReadTimes :
        /\ session[s].state \in Open /\ attempt[s].client = NoClient
        /\ session' = [LiveSession(now) EXCEPT ![s].state = "AWAITING_CONFIRM"]
        /\ attempt' = [attempt EXCEPT ![s] =
                          [client |-> k, requested |-> requested, clientAt |-> 0,
                           hubAt |-> 0, pendingExpires |-> now + PendingTTL,
                           mismatches |-> 0]]
        /\ cred' = [LiveCred(now) EXCEPT ![s] =
                       [status |-> "PENDING", epoch |-> 0, granted |-> {}]]
  BY DEF RegisterClientHello
<1>2. now \in Nat
  BY ReadTimeIsNat
<1>3. CASE x = s
  BY <1>1, <1>3, OpenForward
<1>4. CASE x # s
  BY <1>1, <1>2, <1>4, LiveTables, LiveForward DEF PairInv, Tables
<1>. QED  BY <1>3, <1>4

LEMMA ConfirmForward ==
    ASSUME PairInv, NEW x \in Sessions, NEW s \in Sessions, NEW now \in Nat, Usable(s, now),
           NEW granted, ActivateIfConfirmed(s, now, granted),
           cred[s].status \in {"ACTIVE", "REVOKED"} => granted = cred[s].granted,
           attempt'[x].client = attempt[x].client
    PROVE  Forward(x)
<1>1. LiveSession(now)[s] = session[s] /\ LiveCred(now)[s] = cred[s]
  BY LiveTables DEF Usable
<1>2. CASE x # s
  <2>1. session'[x] = LiveSession(now)[x] /\ cred'[x] = LiveCred(now)[x]
    BY <1>2, LiveTables DEF ActivateIfConfirmed
  <2>. QED  BY <2>1, LiveForward
<1>3. CASE x = s /\ session[s].state \in Open
  BY <1>3, OpenForward
<1>4. CASE x = s /\ session[s].state = "ACTIVE_PAIR"
  <2>1. cred[s].status \in {"ACTIVE", "REVOKED"} /\ cred[s] \in Credential
    BY <1>4 DEF PairInv, Good, Row
  <2>2. session' = LiveSession(now) /\ cred' = [LiveCred(now) EXCEPT ![s].granted = granted]
    BY <2>1 DEF ActivateIfConfirmed
  <2>3. cred'[s] = [cred[s] EXCEPT !.granted = cred[s].granted]
    BY <1>1, <2>1, <2>2, LiveTables
  <2>4. cred'[s] = cred[s]
    BY <2>1, <2>3 DEF Credential
  <2>. QED  BY <1>1, <1>4, <2>2, <2>4, SameForward
<1>. QED  BY <1>2, <1>3, <1>4 DEF Usable

LEMMA ConfirmationsForward ==
    ASSUME PairInv, NEW x \in Sessions, NEW s \in Sessions,
           ConfirmByClient(s) \/ \E g \in Grants : ConfirmByHub(s, g)
    PROVE  Forward(x)
<1>1. CASE ConfirmByClient(s)
  <2>1. PICK now \in ReadTimes :
          /\ Usable(s, now)
          /\ attempt' = [attempt EXCEPT ![s].clientAt = IF @ = 0 THEN now ELSE @]
          /\ ActivateIfConfirmed(s, now, cred[s].granted)
    BY <1>1 DEF ConfirmByClient
  <2>2. attempt'[x].client = attempt[x].client
    BY <2>1 DEF PairInv, Tables, Attempt
  <2>. QED  BY <2>1, <2>2, ReadTimeIsNat, ConfirmForward
<1>2. ASSUME NEW g \in Grants, ConfirmByHub(s, g) PROVE Forward(x)
  <2>. DEFINE grant == IF attempt[s].hubAt = 0 THEN g ELSE cred[s].granted
  <2>1. PICK now \in ReadTimes :
          /\ Usable(s, now)
          /\ attempt' = [attempt EXCEPT ![s].hubAt = IF @ = 0 THEN now ELSE @]
          /\ ActivateIfConfirmed(s, now, grant)
    BY <1>2 DEF ConfirmByHub
  <2>2. attempt'[x].client = attempt[x].client
    BY <2>1 DEF PairInv, Tables, Attempt
  <2>3. cred[s].status \in {"ACTIVE", "REVOKED"} => grant = cred[s].granted
    BY DEF PairInv, Good, InTime
  <2>. HIDE DEF grant
  <2>. QED  BY <2>1, <2>2, <2>3, ReadTimeIsNat, ConfirmForward
<1>. QED  BY <1>1, <1>2

LEMMA MismatchForward ==
    ASSUME PairInv, NEW x \in Sessions, NEW s \in Sessions, MismatchByClient(s)
    PROVE  Forward(x)
<1>. DEFINE count == attempt[s].mismatches + 1
            abort == count >= MismatchLimit /\ session[s].state \in Open
<1>1. PICK now \in ReadTimes :
        /\ Usable(s, now)
        /\ attempt' = [attempt EXCEPT ![s].mismatches = count]
        /\ session' = [LiveSession(now) EXCEPT ![s].state =
                          IF abort THEN "ABORTED_MISMATCH" ELSE @]
        /\ cred' = [LiveCred(now) EXCEPT ![s] = IF abort THEN ExpirePending(@) ELSE @]
  BY DEF MismatchByClient
<1>2. now \in Nat
  BY ReadTimeIsNat
<1>3. attempt'[x].client = attempt[x].client
  BY <1>1 DEF PairInv, Tables, Attempt
<1>4. LiveSession(now)[s] = session[s] /\ LiveCred(now)[s] = cred[s] /\ session[s] \in Session
  BY <1>1, <1>2, LiveTables DEF Usable, PairInv, Tables
<1>5. CASE x # s
  <2>1. session'[x] = LiveSession(now)[x] /\ cred'[x] = LiveCred(now)[x]
    BY <1>1, <1>2, <1>5, LiveTables
  <2>. QED  BY <1>2, <1>3, <2>1, LiveForward
<1>6. CASE x = s /\ abort
  BY <1>3, <1>6, OpenForward
<1>7. CASE x = s /\ ~ abort
  <2>1. session'[s] = session[s]
    BY <1>1, <1>2, <1>4, <1>7, LiveTables DEF Session
  <2>2. cred'[s] = cred[s]
    BY <1>1, <1>2, <1>4, <1>7, LiveTables
  <2>. QED  BY <1>3, <1>7, <2>1, <2>2, SameForward
<1>. QED  BY <1>5, <1>6, <1>7

LEMMA AbortForward ==
    ASSUME PairInv, NEW x \in Sessions, NEW s \in Sessions, NEW to \in Aborted,
           AbortPairingSession(s, to)
    PROVE  Forward(x)
<1>1. CASE x = s
  BY <1>1, OpenForward DEF AbortPairingSession
<1>2. CASE x # s
  BY <1>2, SameForward DEF AbortPairingSession, PairInv, Tables
<1>. QED  BY <1>1, <1>2

LEMMA CredentialForward ==
    ASSUME PairInv, NEW x \in Sessions, NEW s \in Sessions,
           RevokeDeviceCredential(s) \/ \E g \in Grants : UpdateDeviceCapabilities(s, g)
    PROVE  Forward(x)
<1>1. /\ cred[s].status = "ACTIVE" /\ UNCHANGED <<session, attempt>>
      /\ x # s => cred'[x] = cred[x]
  BY DEF RevokeDeviceCredential, UpdateDeviceCapabilities, PairInv, Tables
<1>2. CASE x # s
  BY <1>1, <1>2, SameForward
<1>3. CASE x = s
  <2>1. cred[s] \in Credential /\ s \in DOMAIN cred
    BY DEF PairInv, Tables
  <2>2. CASE RevokeDeviceCredential(s)
    <3>1. cred'[s] = [cred[s] EXCEPT !.status = "REVOKED"]
      BY <2>1, <2>2 DEF RevokeDeviceCredential
    <3>2. cred'[s].granted = cred[s].granted /\ cred'[s].epoch = cred[s].epoch
      BY <2>1, <3>1 DEF Credential
    <3>. QED  BY <1>1, <1>3, <3>2 DEF Forward
  <2>3. ASSUME NEW g \in Grants, UpdateDeviceCapabilities(s, g) PROVE Forward(x)
    <3>1. cred'[s].epoch = cred[s].epoch + 1
      BY <2>1, <2>3 DEF UpdateDeviceCapabilities, Credential, PairInv, Tables
    <3>. QED  BY <1>1, <1>3, <3>1 DEF Forward
  <2>. QED  BY <2>2, <2>3
<1>. QED  BY <1>2, <1>3

------------------------------------------------------------------------------
(* The theorems. *)

(* The strengthened invariant: every pairing's rows agree, and whatever was *)
(* confirmed was confirmed in time, before it counts as well as after.      *)
THEOREM PairingInvariant == Spec => []PairInv
  BY PairInitial, PairStep, PairingAssumption, PTL DEF Spec

(* Between transactions, whatever the lag between reading the clock and     *)
(* holding the write lock: one pairing is open at most, of the running boot,*)
(* and session, attempt and credential agree (create_pairing_session,       *)
(* _expire_due_locked, _abort_session_locked, start_runtime).               *)
THEOREM TablesAlwaysAgree == Spec => []TablesAgree
<1>1. PairInv => TablesAgree
  BY DEF PairInv, Tables, TablesAgree, TypeOK, RowsAgree, Good, Row
<1>. QED  BY <1>1, PairingInvariant, PTL

(* No credential is ever active without two confirmations that came before  *)
(* the session and the pending credential ran out, nor grants more than the *)
(* device asked for (_record_confirmation, update_device_capabilities).     *)
THEOREM ActivationIsEarned == Spec => []ActiveOnlyIfConfirmedInTime
<1>1. ASSUME PairInv, NEW s \in Sessions, cred[s].status \in {"ACTIVE", "REVOKED"}
      PROVE  /\ attempt[s].clientAt # 0 /\ attempt[s].hubAt # 0
             /\ \A t \in {attempt[s].clientAt, attempt[s].hubAt} :
                   t < session[s].expires /\ t < attempt[s].pendingExpires
             /\ cred[s].epoch >= 1
             /\ cred[s].granted # {}
             /\ cred[s].granted \subseteq attempt[s].requested
  BY <1>1 DEF PairInv, Good, InTime
<1>2. PairInv => ActiveOnlyIfConfirmedInTime
  BY <1>1 DEF ActiveOnlyIfConfirmedInTime
<1>. QED  BY <1>2, PairingInvariant, PTL

(* Terminal sessions, revoked and expired credentials and the device of an  *)
(* attempt are final, and an active grant changes only with its epoch, in   *)
(* every step of every operation (_record_confirmation,                     *)
(* update_device_capabilities, revoke_device_credential, start_runtime).    *)
THEOREM RowsOnlyMoveForward == Spec => RowsMoveForward
<1>1. PairInv /\ [Next]_vars => \A x \in Sessions : Forward(x)
  BY SessionsForward, CreateForward, HelloForward, ConfirmationsForward, MismatchForward,
     AbortForward, CredentialForward
  DEF Next
<1>2. (\A x \in Sessions : Forward(x)) =>
        /\ \A s \in Sessions :
              /\ session[s].state \in Terminal => session'[s] = session[s]
              /\ cred[s].status \in {"REVOKED", "EXPIRED"} => cred'[s] = cred[s]
              /\ attempt[s].client # NoClient => attempt'[s].client = attempt[s].client
        /\ \A s \in Sessions :
              cred[s].status = "ACTIVE" =>
                  \/ cred'[s].granted = cred[s].granted /\ cred'[s].epoch = cred[s].epoch
                  \/ cred'[s].epoch = cred[s].epoch + 1
  BY DEF Forward
<1>. QED
  BY <1>1, <1>2, PairingInvariant, PTL DEF Spec, RowsMoveForward, Settled, GrantChangesWithEpoch
==============================================================================
