------------------------------- MODULE MCHub --------------------------------
(* The hub's own services.  They share no state: a behaviour runs one of   *)
(* them, its part, on a small instance and leaves the others at rest.  The *)
(* webhook part has one event, two replicas of which either may crash and  *)
(* one permit each; the proofs cover the rest.                             *)
EXTENDS WebhookQueue, Admission, AuditWriter, EventFeed, ControlApi

----------------------------------------------------------------------------
(* Admission: two hellos with one token, or the hub's own token and a      *)
(* known key, against a creation and a deletion, or against two users'     *)
(* claims of the device.                                                   *)
Shows(m, k, t) == [method |-> m, token |-> 1, key |-> k, at |-> t]
Wants(o, u) == [op |-> o, user |-> u, key |-> "k2"]
TheCreds ==
    {[h1 |-> Shows("token", "k1", 1), h2 |-> Shows("token", "k2", 1)],
     [h1 |-> Shows("static", "k1", 2), h2 |-> Shows("ed25519", "k1", 1)]}
TheAdminAsks ==
    {[a1 |-> Wants("create", "u1"), a2 |-> Wants("delete", "u1")],
     [a1 |-> Wants("create", "u1"), a2 |-> Wants("revoke", "u1")],
     [a1 |-> Wants("claim", "u1"), a2 |-> Wants("claim", "u2")]}

----------------------------------------------------------------------------
(* EventFeed: two events of one replica and one of the other; the          *)
(* dashboard is on the second.                                             *)
TheHomes == [e1 |-> "r1", e2 |-> "r1", e3 |-> "r2"]
TheSockets == [d1 |-> "r2"]

----------------------------------------------------------------------------
(* ControlApi: one call that asks anything the endpoints can tell apart,   *)
(* beside a second call of the same user.                                  *)
S(s) == [t |-> "s", v |-> s]
N(n) == [t |-> "n", v |-> n]
B(b) == [t |-> "b", v |-> b]
O(o) == [t |-> "o", v |-> o]
OnPath == [path |-> S("p")]
LowerDef == ("Permanent" :> "permanent") @@ ("JPG" :> "jpg") @@ ("Trsh" :> "trsh")
Base64Def == ("QQ==" :> "A") @@ ("QUFB" :> "AAA")
Plain == [ep |-> "files", bad |-> {}, user |-> "u1", op |-> "stat", params |-> OnPath,
          timeout |-> 0]
File(op, params) == [Plain EXCEPT !.op = op, !.params = params]
Key(k) == [full_write |-> O([s3_object_key |-> S(k)])]
Replace(b64) ==
    [byte_range_replace |->
        O([byte_offset |-> N("0"), byte_length |-> N("1"), new_content_b64 |-> S(b64)])]
DenyEntry == O([principal |-> S("w"), access_mask |-> N("1"), entry_type |-> S("deny")])
At(ep) == [Plain EXCEPT !.ep = ep]
ByDash(op, params) == [File(op, params) EXCEPT !.ep = "dash_files"]
FromS3(k) == [method |-> "full_write", with |-> [s3_object_key |-> S(k)]]
FileAsks == <<
  File("stat", OnPath), File("list", [OnPath EXCEPT !.path = N("1")]),
  File("glob", [pattern |-> S("*")]),
  File("read_text", OnPath @@ [start |-> O([start_byte |-> N("3")]), line_numbers |-> B("true")]),
  File("read_text", OnPath @@ [start |-> O([start_col |-> N("3")])]),
  File("read_binary", OnPath @@ [byte_offset |-> N("7")]),
  File("read_image", OnPath @@ [output_format |-> S("JPG")]),
  File("read_pdf", OnPath @@ [mode |-> [t |-> "null", v |-> ""]]),
  File("delete", OnPath @@ [mode |-> S("Permanent")]), File("delete", OnPath),
  File("delete", OnPath @@ [mode |-> S("Trsh")]),
  File("write", OnPath @@ [full_write |-> O([content |-> S("A")]), append |-> O([content |-> S("B")])]),
  File("write", OnPath @@ [full_write |-> O([x |-> S("A")])]),
  File("write", OnPath @@ Key(<<"file-ops", "dev", "k">>)),
  File("write", OnPath @@ Key(<<"file-ops", "dev2", "k">>)),
  File("edit", OnPath @@ Replace("QQ==")), File("edit", OnPath @@ Replace("?")),
  File("chmod", OnPath @@ [windows |-> O([entries |-> [t |-> "l", v |-> <<DenyEntry>>]])]),
  File("chmod", OnPath @@ [unix |-> O([mode |-> N("7")])]),
  File("copy", [source |-> S("p"), destination |-> S("q")]), File("rename", OnPath),
  [Plain EXCEPT !.timeout = 5], [Plain EXCEPT !.bad = {"allow"}], [Plain EXCEPT !.bad = {"token"}],
  [Plain EXCEPT !.bad = {"scope"}], [Plain EXCEPT !.bad = {"named"}] >>
OtherAsks == <<
  At("upload"), At("jobs"), [At("jobs") EXCEPT !.bad = {"named"}],
  At("tool"), [At("tool") EXCEPT !.timeout = 400000], At("catalog"),
  At("browser"), At("cancel"), [At("cancel") EXCEPT !.bad = {"allow"}],
  At("output"), [At("output") EXCEPT !.bad = {"json"}],
  ByDash("read_binary", OnPath), ByDash("read_image", [output_format |-> [t |-> "e", v |-> "png"]]),
  ByDash("write", FromS3(<<"", "x">>)), ByDash("write", FromS3(<<"file-ops", "dev2", "k">>)),
  [At("dash_files") EXCEPT !.bad = {"media", "json"}],
  At("dash_upload"), At("dash_browser"), [At("tool") EXCEPT !.user = "u2"] >>
TheApiAsks == FileAsks \o OtherAsks
TheAsksOf == [c1 |-> DOMAIN TheApiAsks, c2 |-> {1}]

----------------------------------------------------------------------------
VARIABLE part

hubVars == <<part, vars, admissionVars, auditVars, feedVars, apiVars>>

HubInit ==
    /\ part \in {"webhook", "admission", "audit", "feed", "api"}
    /\ Init /\ AuditWriterInit /\ EventFeedInit
    /\ (part # "admission" => /\ durable = TRUE /\ devRow = NoRow
                              /\ cred = CHOOSE c \in Creds : TRUE
                              /\ aask = CHOOSE c \in AdminAsks : TRUE) /\ AdmissionInit
    /\ (part # "api" => s3 = TRUE /\ devUser = "u1") /\ ControlApiInit

(* Everything but the part that runs.                                      *)
OthersRest ==
    /\ UNCHANGED part
    /\ (part # "webhook" => UNCHANGED vars)
    /\ (part # "admission" => UNCHANGED admissionVars)
    /\ (part # "audit" => UNCHANGED auditVars)
    /\ (part # "feed" => UNCHANGED feedVars)
    /\ (part # "api" => UNCHANGED apiVars)

HubNext ==
    /\ OthersRest
    /\ \/ part = "webhook" /\ Next
       \/ part = "admission" /\ AdmissionNext
       \/ part = "audit" /\ AuditWriterNext
       \/ part = "feed" /\ EventFeedNext
       \/ part = "api" /\ ControlApiNext

(* The fairness of WebhookQueue's FairSpec.                                *)
HubSpec ==
    /\ HubInit /\ [][HubNext]_hubVars
    /\ \A e \in Events : /\ WF_hubVars(part = "webhook" /\ OthersRest /\ EnqueueNotify(e))
                         /\ WF_hubVars(part = "webhook" /\ OthersRest /\ TimePasses(e))
    /\ \A w \in Workers : WF_hubVars(part = "webhook" /\ OthersRest /\ Worker(w))
    /\ \A w \in Workers, p \in Permits : WF_hubVars(part = "webhook" /\ OthersRest /\ Task(w, p))

----------------------------------------------------------------------------
(* What the hub tells its operators: every audit entry is accounted for    *)
(* whatever the database and the process do (BufferedAuditStore), and a    *)
(* dashboard sees each event of its replica once, in order, or is told to  *)
(* reload (EventBus, run_dashboard_socket).                                *)
HubTells == AuditAccounted /\ FeedFaithful
=============================================================================
