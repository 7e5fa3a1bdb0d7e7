------------------------------ MODULE Admission ------------------------------
(***************************************************************************)
(* How one device gets into one hub: its row (create_device, the admin's   *)
(* pre_register, both deletions), its bootstrap tokens, and the hellos     *)
(* that turn a token into a registered key.  In a durable hub every query  *)
(* is a step of its own and the token store's calls are serialised by its  *)
(* connection mutex; the in-memory hub does each call under one lock.      *)
(***************************************************************************)
EXTENDS Naturals, FiniteSets

CONSTANTS Hellos,      \* device connections in their handshake
          Creds,       \* what they present: [method, token, key, at]
          Admins,      \* calls of the admin and dashboard APIs
          AdminAsks,   \* what they ask: [op, user, key]
          BootTokens,  \* bound: 1..n, the tokens issued, in order
          NoOne        \* no key, no user, nobody

(* A hello presents a key, and the hub may issue a token.                  *)
ASSUME AdmissionAssumption ==
    /\ NoOne \notin Hellos
    /\ 1 \in BootTokens
    /\ \A c \in Creds : \A h \in Hellos : c[h].key # NoOne

VARIABLES
    durable,    \* StoreConfig::Persistent
    devRow,        \* the device: there, key, user
    cache,      \* MemoryDeviceStore.devices: there, last_signed_at_ms
    rowLock,    \* the transaction holding the row FOR UPDATE
    bound,      \* tokens that exist (ahand:bootstrap:{token})
    pointer,    \* the device's token, 0 when it has none
    reservedBy, \* per token: the hello that reserved it
    issuedToks, \* tokens issued so far
    hpc, cred, holds,  \* per hello: where it is, what it shows, bootstrap_reservation
    apc, aask,         \* per admin call: where it is, its request
    keyBy,      \* history: the hello that wrote the key, NoOne if under no reservation
    unreleased, \* history: hellos whose release failed
    lapsed      \* history: hellos whose reservation ended before they did

admissionVars == <<durable, devRow, cache, rowLock, bound, pointer, reservedBy, issuedToks,
                   hpc, cred, holds, apc, aask, keyBy, unreleased, lapsed>>
devRowVars == <<devRow, cache, rowLock, keyBy>>
tokenVars == <<bound, pointer, reservedBy, issuedToks>>
helloVars == <<hpc, cred, holds, unreleased, lapsed>>
adminVars == <<apc, aask>>

NoRow == [there |-> FALSE, key |-> NoOne, user |-> NoOne]
FreshRow == [NoRow EXCEPT !.there = TRUE]
NoEntry == [there |-> FALSE, at |-> 0]
FreshEntry == [there |-> TRUE, at |-> 0]

(* No device yet; the hub's bootstrap device, pre-registered at start; or  *)
(* one created before, its token issued.                                   *)
AdmissionInit ==
    /\ durable \in BOOLEAN
    /\ devRow \in {NoRow, FreshRow}
    /\ cache = IF devRow.there THEN FreshEntry ELSE NoEntry
    /\ rowLock = NoOne
    /\ issuedToks \in IF devRow.there THEN {0, 1} ELSE {0}
    /\ pointer = issuedToks /\ bound = 1..issuedToks
    /\ reservedBy = [t \in BootTokens |-> NoOne]
    /\ hpc = [h \in Hellos |-> "start"] /\ cred \in Creds
    /\ holds = [h \in Hellos |-> FALSE] /\ unreleased = {}
    /\ apc = [a \in Admins |-> "start"] /\ aask \in AdminAsks
    /\ keyBy = NoOne /\ lapsed = {}

HelloTo(h, l) == hpc' = [hpc EXCEPT ![h] = l]
AdminTo(a, l) == apc' = [apc EXCEPT ![a] = l]

(* A statement that writes the row waits for the transaction holding it.   *)
RowFree(who) == rowLock \in {NoOne, who}

----------------------------------------------------------------------------
(* BootstrapCredentials::reserve: the token is bound and SET NX succeeds.  *)
Reservable(t) == t \in bound /\ reservedBy[t] = NoOne

(* verify_device_hello: a signed hello shows the key itself, the hub's own *)
(* bootstrap token, or a token of the device, which it must reserve.       *)
VerifyHello(h) ==
    /\ hpc[h] = "start"
    /\ IF cred[h].method # "token"
       THEN HelloTo(h, "verified") /\ UNCHANGED <<reservedBy, holds>>
       ELSE IF Reservable(cred[h].token)
       THEN /\ HelloTo(h, "verified")
            /\ reservedBy' = [reservedBy EXCEPT ![cred[h].token] = h]
            /\ holds' = [holds EXCEPT ![h] = TRUE]
       ELSE HelloTo(h, "closing") /\ UNCHANGED <<reservedBy, holds>>
    /\ UNCHANGED <<durable, bound, pointer, issuedToks, cred, unreleased, lapsed>>
    /\ UNCHANGED devRowVars /\ UNCHANGED adminVars

(* A registering hello needs a row without a key, any other one its key.   *)
MayEnter(h) ==
    /\ devRow.there
    /\ IF cred[h].method = "ed25519" THEN devRow.key = cred[h].key ELSE devRow.key = NoOne

Covered(h) == holds[h] /\ reservedBy[cred[h].token] = h
WritesKey(h) == IF holds[h] /\ h \notin lapsed THEN h ELSE NoOne
Loses(t) == lapsed' = lapsed \cup {h \in Hellos : t \in BootTokens /\ reservedBy[t] = h}

(* accept_verified_hello without a database: under the entry's lock, the   *)
(* key is stored before the signature's age is compared.                   *)
AcceptInMemory(h) ==
    /\ hpc[h] = "verified" /\ ~durable
    /\ IF MayEnter(h)
       THEN /\ devRow' = [devRow EXCEPT !.key = cred[h].key]
            /\ keyBy' = IF devRow.key = NoOne THEN WritesKey(h) ELSE keyBy
       ELSE UNCHANGED <<devRow, keyBy>>
    /\ IF MayEnter(h) /\ cred[h].at > cache.at
       THEN cache' = [cache EXCEPT !.at = cred[h].at] /\ HelloTo(h, "accepted")
       ELSE HelloTo(h, "closing") /\ UNCHANGED cache
    /\ UNCHANGED <<durable, rowLock, cred, holds, unreleased, lapsed>>
    /\ UNCHANGED tokenVars /\ UNCHANGED adminVars

(* accept_verified_hello_persistent: the cached age, then the row's key.   *)
CheckHello(h) ==
    /\ hpc[h] = "verified" /\ durable
    /\ HelloTo(h, IF cred[h].at > cache.at /\ MayEnter(h) THEN "checked" ELSE "closing")
    /\ UNCHANGED <<durable, cred, holds, unreleased, lapsed>>
    /\ UNCHANGED devRowVars /\ UNCHANGED tokenVars /\ UNCHANGED adminVars

(* upsert_device: inserts or overwrites, COALESCE keeps the owner.         *)
UpsertHello(h) ==
    /\ hpc[h] = "checked" /\ RowFree(h)
    /\ devRow' = [there |-> TRUE, key |-> cred[h].key, user |-> devRow.user]
    /\ keyBy' = IF devRow.key = cred[h].key THEN keyBy ELSE WritesKey(h)
    /\ HelloTo(h, "written")
    /\ UNCHANGED <<durable, cache, rowLock, cred, holds, unreleased, lapsed>>
    /\ UNCHANGED tokenVars /\ UNCHANGED adminVars

(* The row read back, then cached with the hello's age.                    *)
CacheHello(h) ==
    /\ hpc[h] = "written"
    /\ IF devRow.there
       THEN cache' = [there |-> TRUE, at |-> cred[h].at] /\ HelloTo(h, "accepted")
       ELSE HelloTo(h, "closing") /\ UNCHANGED cache
    /\ UNCHANGED <<durable, devRow, rowLock, keyBy, cred, holds, unreleased, lapsed>>
    /\ UNCHANGED tokenVars /\ UNCHANGED adminVars

(* consume: only a reservation that still stands takes the token away; the *)
(* connection forgets the reservation either way.                          *)
Consume(h) ==
    /\ hpc[h] = "accepted"
    /\ IF Covered(h)
       THEN /\ bound' = bound \ {cred[h].token}
            /\ reservedBy' = [reservedBy EXCEPT ![cred[h].token] = NoOne]
            /\ pointer' = 0
       ELSE UNCHANGED <<bound, reservedBy, pointer>>
    /\ holds' = [holds EXCEPT ![h] = FALSE]
    /\ HelloTo(h, "admitted")
    /\ UNCHANGED <<durable, issuedToks, cred, unreleased, lapsed>>
    /\ UNCHANGED devRowVars /\ UNCHANGED adminVars

(* register and mark_online, which knows a device by either copy.          *)
JoinHub(h) ==
    /\ hpc[h] = "admitted"
    /\ HelloTo(h, IF cache.there \/ devRow.there THEN "serving" ELSE "closing")
    /\ UNCHANGED <<durable, cred, holds, unreleased, lapsed>>
    /\ UNCHANGED devRowVars /\ UNCHANGED tokenVars /\ UNCHANGED adminVars

(* A query or a script fails, or the device goes away.                     *)
HandshakeFails(h) ==
    /\ \/ durable /\ hpc[h] \in {"verified", "checked", "written", "accepted"}
       \/ hpc[h] = "serving"
    /\ HelloTo(h, "closing")
    /\ UNCHANGED <<durable, cred, holds, unreleased, lapsed>>
    /\ UNCHANGED devRowVars /\ UNCHANGED tokenVars /\ UNCHANGED adminVars

(* The end of handle_device_socket releases what was not consumed; a Redis *)
(* error there is only logged.                                             *)
Teardown(h) ==
    /\ hpc[h] = "closing"
    /\ \/ /\ Covered(h)
          /\ reservedBy' = [reservedBy EXCEPT ![cred[h].token] = NoOne]
          /\ UNCHANGED unreleased
       \/ ~Covered(h) /\ UNCHANGED <<reservedBy, unreleased>>
       \/ /\ Covered(h) /\ durable
          /\ unreleased' = unreleased \cup {h} /\ UNCHANGED reservedBy
    /\ holds' = [holds EXCEPT ![h] = FALSE]
    /\ HelloTo(h, "closed")
    /\ UNCHANGED <<durable, bound, pointer, issuedToks, cred, lapsed>>
    /\ UNCHANGED devRowVars /\ UNCHANGED adminVars

(* The reservation's PX runs out, whatever its handshake is doing.         *)
ReservationLapses(t) ==
    /\ durable /\ reservedBy[t] # NoOne
    /\ reservedBy' = [reservedBy EXCEPT ![t] = NoOne]
    /\ UNCHANGED <<durable, bound, pointer, issuedToks>>
    /\ Loses(t) /\ UNCHANGED <<hpc, cred, holds, unreleased>>
    /\ UNCHANGED devRowVars /\ UNCHANGED adminVars

----------------------------------------------------------------------------
Does(a, op, l) == aask[a].op = op /\ apc[a] = l

(* create_device: insert refuses an id that exists.                        *)
InsertDevice(a) ==
    /\ Does(a, "create", "start")
    /\ IF devRow.there THEN AdminTo(a, "refused") /\ UNCHANGED <<devRow, cache, keyBy>>
       ELSE /\ devRow' = FreshRow /\ cache' = FreshEntry /\ keyBy' = NoOne
            /\ AdminTo(a, "inserted")
    /\ UNCHANGED <<durable, rowLock, aask>>
    /\ UNCHANGED tokenVars /\ UNCHANGED helloVars

(* Drops a token and its reservation.                                      *)
Without(t) ==
    /\ bound' = bound \ {t}
    /\ reservedBy' = [u \in BootTokens |-> IF u = t THEN NoOne ELSE reservedBy[u]]

(* issue: the device's earlier token dies, a fresh one is bound.           *)
IssueToken(a) ==
    /\ Does(a, "create", "inserted")
    /\ issuedToks + 1 \in BootTokens
    /\ issuedToks' = issuedToks + 1 /\ pointer' = issuedToks + 1
    /\ bound' = (bound \ {pointer}) \cup {issuedToks + 1}
    /\ reservedBy' = [u \in BootTokens |-> IF u = pointer THEN NoOne ELSE reservedBy[u]]
    /\ AdminTo(a, "done")
    /\ UNCHANGED <<durable, aask>> /\ UNCHANGED devRowVars /\ Loses(pointer)
    /\ UNCHANGED <<hpc, cred, holds, unreleased>>

(* MemoryDeviceStore::delete, row and entry; a durable hub deletes the row *)
(* first and the entry after the query.                                    *)
DeleteRow(a, next) ==
    /\ RowFree(a)
    /\ devRow' = NoRow /\ keyBy' = NoOne
    /\ cache' = IF durable THEN cache ELSE NoEntry
    /\ AdminTo(a, next)
    /\ UNCHANGED <<durable, rowLock, aask>>
    /\ UNCHANGED tokenVars /\ UNCHANGED helloVars

DropEntry(a, next) ==
    /\ cache' = NoEntry
    /\ AdminTo(a, next)
    /\ UNCHANGED <<durable, devRow, rowLock, keyBy, aask>>
    /\ UNCHANGED tokenVars /\ UNCHANGED helloVars

(* issue failed: the row goes again, in whatever state it is by now.       *)
UndoInsert(a) ==
    \/ durable /\ Does(a, "create", "inserted") /\ DeleteRow(a, "undo")
    \/ Does(a, "create", "undo") /\ DropEntry(a, "refused")

(* The dashboard's delete_device: the row, its entry, then the tokens.     *)
DeleteDevice(a) ==
    \/ Does(a, "delete", "start") /\ DeleteRow(a, IF durable THEN "gone" ELSE "untoken")
    \/ Does(a, "delete", "gone") /\ DropEntry(a, "untoken")

DeleteTokens(a) ==
    /\ Does(a, "delete", "untoken")
    /\ Without(pointer) /\ pointer' = 0
    /\ AdminTo(a, "done")
    /\ UNCHANGED <<durable, issuedToks, aask>> /\ UNCHANGED devRowVars /\ Loses(pointer)
    /\ UNCHANGED <<hpc, cred, holds, unreleased>>

(* The admin's delete_device: 404 without a row, else row, entry and kick; *)
(* bootstrap tokens stay.                                                  *)
RevokeDevice(a) ==
    \/ /\ Does(a, "revoke", "start") /\ ~devRow.there /\ RowFree(a)
       /\ AdminTo(a, "refused")
       /\ UNCHANGED <<durable, aask>>
       /\ UNCHANGED devRowVars /\ UNCHANGED tokenVars /\ UNCHANGED helloVars
    \/ Does(a, "revoke", "start") /\ devRow.there /\ DeleteRow(a, IF durable THEN "gone" ELSE "kick")
    \/ Does(a, "revoke", "gone") /\ DropEntry(a, "kick")

Kick(a) ==
    /\ Does(a, "revoke", "kick")
    /\ hpc' = [h \in Hellos |-> IF hpc[h] = "serving" THEN "closing" ELSE hpc[h]]
    /\ AdminTo(a, "done")
    /\ UNCHANGED <<durable, cred, holds, unreleased, lapsed, aask>>
    /\ UNCHANGED devRowVars /\ UNCHANGED tokenVars

Claimable(a) == devRow.user \in {NoOne, aask[a].user}

(* pre_register_once, the ownership check: SELECT ... FOR UPDATE locks the *)
(* row only if there is one.                                               *)
CheckOwner(a) ==
    /\ Does(a, "claim", "start") /\ durable /\ RowFree(a)
    /\ IF Claimable(a)
       THEN AdminTo(a, "claiming") /\ rowLock' = IF devRow.there THEN a ELSE NoOne
       ELSE AdminTo(a, "refused") /\ UNCHANGED rowLock
    /\ UNCHANGED <<durable, devRow, cache, keyBy, aask>>
    /\ UNCHANGED tokenVars /\ UNCHANGED helloVars

ClaimedBy(a) == [there |-> TRUE, key |-> aask[a].key, user |-> aask[a].user]

(* Mutant: the update is not gated on the owner.                           *)
MutClaimRow(a) ==
    /\ Does(a, "claim", "claiming") /\ RowFree(a)
    /\ devRow' = ClaimedBy(a) /\ keyBy' = NoOne /\ AdminTo(a, "caching")
    /\ rowLock' = NoOne
    /\ UNCHANGED <<durable, cache, aask>> /\ UNCHANGED tokenVars /\ UNCHANGED helloVars

(* INSERT ... ON CONFLICT DO UPDATE ... WHERE unowned or owned by the      *)
(* caller, and commit; a row inserted since the check may refuse it.       *)
ClaimRow(a) ==
    /\ Does(a, "claim", "claiming") /\ RowFree(a)
    /\ IF Claimable(a)
       THEN devRow' = ClaimedBy(a) /\ keyBy' = NoOne /\ AdminTo(a, "caching")
       ELSE UNCHANGED <<devRow, keyBy>> /\ AdminTo(a, "refused")
    /\ rowLock' = NoOne
    /\ UNCHANGED <<durable, cache, aask>> /\ UNCHANGED tokenVars /\ UNCHANGED helloVars

CacheClaim(a) ==
    /\ Does(a, "claim", "caching")
    /\ cache' = FreshEntry /\ AdminTo(a, "done")
    /\ UNCHANGED <<durable, devRow, rowLock, keyBy, aask>>
    /\ UNCHANGED tokenVars /\ UNCHANGED helloVars

(* The in-memory pre_register: one entry lock; the age is kept.            *)
ClaimInMemory(a) ==
    /\ Does(a, "claim", "start") /\ ~durable
    /\ IF Claimable(a)
       THEN /\ devRow' = ClaimedBy(a) /\ keyBy' = NoOne
            /\ cache' = [cache EXCEPT !.there = TRUE] /\ AdminTo(a, "done")
       ELSE UNCHANGED <<devRow, keyBy, cache>> /\ AdminTo(a, "refused")
    /\ UNCHANGED <<durable, rowLock, aask>>
    /\ UNCHANGED tokenVars /\ UNCHANGED helloVars

----------------------------------------------------------------------------
HelloStep(h) ==
    \/ VerifyHello(h) \/ AcceptInMemory(h) \/ CheckHello(h) \/ UpsertHello(h) \/ CacheHello(h)
    \/ Consume(h) \/ JoinHub(h) \/ HandshakeFails(h) \/ Teardown(h)

AdminStep(a) ==
    \/ InsertDevice(a) \/ IssueToken(a) \/ UndoInsert(a) \/ DeleteDevice(a) \/ DeleteTokens(a)
    \/ RevokeDevice(a) \/ Kick(a) \/ CheckOwner(a) \/ ClaimRow(a) \/ CacheClaim(a)
    \/ ClaimInMemory(a)

AdmissionNext ==
    \/ \E h \in Hellos : HelloStep(h)
    \/ \E a \in Admins : AdminStep(a)
    \/ \E t \in BootTokens : ReservationLapses(t)

AdmissionSpec == AdmissionInit /\ [][AdmissionNext]_admissionVars

----------------------------------------------------------------------------
(* While a row lives its owner never changes to another user: two admin    *)
(* calls that both saw no row cannot overwrite each other (the WHERE guard *)
(* of pre_register_once), and no hello clears the owner (COALESCE).        *)
OwnerKept ==
    devRow.there /\ devRow'.there /\ devRow.user # NoOne => devRow'.user = devRow.user

(* A bootstrap token registers one key: the key one hello wrote under a    *)
(* standing reservation is not overwritten by another's under its own.     *)
KeyPinned ==
    devRow.there /\ devRow'.there /\ keyBy # NoOne /\ keyBy' # NoOne => keyBy' = keyBy

(* A reservation ends with its handshake: a token is held only by a hello  *)
(* still on its way, or by one whose release failed (until the PX).        *)
NoStuckReservation ==
    \A t \in BootTokens : reservedBy'[t] # NoOne =>
        hpc'[reservedBy'[t]] \in {"verified", "checked", "written", "accepted", "closing"}
        \/ reservedBy'[t] \in unreleased'

(* What admission promises, whatever admin calls, hellos, errors and       *)
(* expiries fall between its queries.                                      *)
AdmissionSound == [][OwnerKept /\ KeyPinned /\ NoStuckReservation]_admissionVars
=============================================================================
