----------------------------- MODULE ControlApi -----------------------------
(***************************************************************************)
(* The HTTP calls that reach one device through the hub: the control       *)
(* plane's endpoints (http/control_plane.rs), guarded by a token's claims, *)
(* a rate limit per user and the ownership of the device, and the          *)
(* dashboard's file and browser endpoints (http/files.rs, http/browser.rs).*)
(* Large contents travel through S3, which only the hub speaks.            *)
(*                                                                         *)
(* A step ends where the handler awaits: the device's row may change       *)
(* hands, the device may leave, and the client may hang up in between.     *)
(* The table of waiting calls is PendingRequests; the jobs behind          *)
(* /api/control/jobs are ControlJobs.  Times are in milliseconds.          *)
(***************************************************************************)
EXTENDS FileWire

CONSTANTS
  ApiCalls,     \* HTTP requests
  ApiAsks,      \* sequence of what they may ask
  AsksOf,       \* call -> indices into ApiAsks
  ApiUsers, JobUser,    \* external users; the one who created the job of the job calls
  RateBurst, MaxRefills, \* cells of the rate limiter; bound: cells it gets back
  MaxTurns,     \* bound: changes of the device's row or link
  FileCeiling,  \* file_request_timeout
  Large,        \* contents above file_transfer_threshold_bytes
  BadParts      \* components of an object key that hold .. or a NUL

VARIABLES
  devUser,   \* the row's external_user_id, "nobody" or "gone"
  devUp,     \* the device is connected
  turns,
  cells, refills,   \* user -> cells left; cells given back
  s3,        \* the hub has an S3 client
  bucket,    \* [key, bytes] of the read objects uploaded
  api        \* call -> its handler

apiVars == <<devUser, devUp, turns, cells, refills, s3, bucket, api>>
worldVars == <<devUser, devUp, turns>>

Idle0 == [pc |-> "idle", ask |-> 1, held |-> "", sent |-> NoBody, answer |-> NoBody,
          wait |-> 0, audits |-> <<>>, status |-> 0, code |-> "", body |-> NoBody]
Ask(c) == ApiAsks[api[c].ask]
Dashboard(a) == a.ep \in {"dash_files", "dash_upload", "dash_browser"}

ControlApiInit ==
    /\ devUser \in ApiUsers
    /\ devUp = TRUE
    /\ turns = 0
    /\ cells = [u \in ApiUsers |-> RateBurst]
    /\ refills = [u \in ApiUsers |-> 0]
    /\ s3 \in BOOLEAN
    /\ bucket = {}
    /\ api = [c \in ApiCalls |-> Idle0]

Handler(c, new) == api' = [api EXCEPT ![c] = new]
Answered(h, status, code) == [h EXCEPT !.pc = "replied", !.status = status, !.code = code]
Refused(h, e) == Answered(h, e[1], e[2])

----------------------------------------------------------------------------
(* What a handler checks before its first await, in order.                 *)
require_control_plane_jwt == <<"token">>
AuthContextExt == <<"token", "scope">>
CreateJobChecks == <<"scope", "json", "named", "rate">>
OutputChecks == <<"scope", "rate">>
CancelChecks == <<"scope", "rate">>
CatalogChecks == <<"scope", "rate">>
BrowserChecks == <<"scope", "json", "rate">>
UploadUrlChecks == <<"scope", "json", "named", "rate">>
FilesChecks == <<"scope", "json", "rate", "named">>
AppToolChecks == <<"scope", "json", "named", "rate">>
FileOperationChecks == <<"media", "json">>

Checks ==
    LET control(checks) == require_control_plane_jwt \o checks
        dashboard(checks) == AuthContextExt \o checks
    IN  [files |-> control(FilesChecks), upload |-> control(UploadUrlChecks),
         jobs |-> control(CreateJobChecks), tool |-> control(AppToolChecks),
         browser |-> control(BrowserChecks), catalog |-> control(CatalogChecks),
         cancel |-> control(CancelChecks), output |-> control(OutputChecks),
         dash_files |-> dashboard(FileOperationChecks), dash_upload |-> dashboard(<<>>),
         dash_browser |-> dashboard(<<"json">>)]

ControlError ==
    [token |-> <<401, "UNAUTHORIZED">>, scope |-> <<403, "FORBIDDEN">>,
     json |-> <<400, "VALIDATION_ERROR">>, named |-> <<400, "VALIDATION_ERROR">>,
     rate |-> <<429, "RATE_LIMITED">>, allow |-> <<403, "FORBIDDEN">>,
     media |-> <<415, "UNSUPPORTED_MEDIA_TYPE">>, gone |-> <<404, "DEVICE_NOT_FOUND">>,
     offline |-> <<404, "DEVICE_OFFLINE">>, conflict |-> <<409, "DEVICE_OFFLINE">>,
     job |-> <<404, "JOB_NOT_FOUND">>, internal |-> <<500, "INTERNAL_ERROR">>]
NotDeviceOwner == <<403, "NOT_DEVICE_OWNER">>

S3Disabled == <<503, "S3_DISABLED">>

(* The first check that fails; the limiter's cell goes to a call that      *)
(* reaches it, whatever fails after.                                       *)
FirstFailing(a) ==
    LET fails == {n \in DOMAIN Checks[a.ep] :
                    \/ Checks[a.ep][n] \in a.bad
                    \/ Checks[a.ep][n] = "rate" /\ cells[a.user] = 0}
    IN  IF fails = {} THEN Len(Checks[a.ep]) + 1 ELSE Min(fails)

(* The job must be the caller's, and its device among the token's.         *)
JobAccess(a, h, found, next) ==
    IF found = "no" \/ a.user # JobUser THEN Refused(h, ControlError.job)
    ELSE IF "allow" \in a.bad THEN Refused(h, ControlError.allow)
    ELSE next
stream_job_output(a, h, found) ==
    JobAccess(a, h, found,
        IF "json" \in a.bad THEN Refused(h, ControlError.json)
        ELSE IF found = "stream fails" THEN Refused(h, ControlError.internal)
        ELSE Answered(h, 200, ""))
cancel_job(a, h, found) == JobAccess(a, h, found, [h EXCEPT !.pc = "send"])

(* create_upload_url_for_device, up to the presigning.                     *)
create_upload_url(h) == IF s3 THEN [h EXCEPT !.pc = "presign"] ELSE Refused(h, S3Disabled)

(* The call's first await, or its answer.                                  *)
Admitted(a, h, found) ==
    CASE a.ep = "output" -> stream_job_output(a, h, found)
      [] a.ep = "cancel" -> cancel_job(a, h, found)
      [] a.ep = "dash_files" -> [h EXCEPT !.pc = "inject"]
      [] a.ep = "dash_browser" -> [h EXCEPT !.pc = "send"]
      [] a.ep = "dash_upload" -> create_upload_url(h)
      [] OTHER -> [h EXCEPT !.pc = "lookup"]

Arrive(c) ==
    /\ api[c].pc = "idle"
    /\ \E i \in AsksOf[c], found \in {"yes", "no", "stream fails"} :
        LET a == ApiAsks[i]
            first == FirstFailing(a)
            asked == {n \in 1..(first - 1) : Checks[a.ep][n] = "rate"}
            h == [api[c] EXCEPT !.ask = i]
        IN  /\ found = "yes" \/ a.ep \in {"cancel", "output"}
            /\ cells' = IF asked = {} THEN cells ELSE [cells EXCEPT ![a.user] = @ - 1]
            /\ Handler(c, IF first <= Len(Checks[a.ep])
                          THEN Refused(h, ControlError[Checks[a.ep][first]])
                          ELSE Admitted(a, h, found))
    /\ UNCHANGED <<worldVars, refills, s3, bucket>>

----------------------------------------------------------------------------
(* Object keys, as the components between the slashes.                     *)
validate_object_key(k) == k # <<>> /\ k[1] # "" /\ ToSet(k) \cap BadParts = {}
validate_object_key_for_device(k) ==
    validate_object_key(k) /\ Len(k) > 2 /\ SubSeq(k, 1, 2) = <<"file-ops", "dev">>
BadKey == <<400, "INVALID_S3_OBJECT_KEY">>
PresignFailed == <<500, "S3_PRESIGN_FAILED">>

full_write_s3_object_key(p) ==
    IF "method" \in DOMAIN p /\ p.method = "full_write" /\ p.with.s3_object_key.t # "none"
    THEN <<p.with.s3_object_key.v>> ELSE <<>>

(* maybe_inject_full_write_download_url, up to the presigning.             *)
maybe_inject(h, p, scoped) ==
    LET key == full_write_s3_object_key(p)
        next == [h EXCEPT !.sent = p]
    IN  IF key = <<>> THEN [next EXCEPT !.pc = "send"]
        ELSE IF scoped /\ ~validate_object_key_for_device(key[1]) THEN Refused(h, BadKey)
        ELSE IF ~s3 THEN Refused(h, S3Disabled)
        ELSE IF ~validate_object_key(key[1]) THEN Refused(h, BadKey)
        ELSE [next EXCEPT !.pc = "presign"]

(* find_by_id's row, the owner, the token's device_ids, and what the       *)
(* endpoint goes on with.                                                  *)
Owned(a, h, foreign, next) ==
    IF devUser = "gone" THEN Refused(h, ControlError.gone)
    ELSE IF devUser # a.user THEN Refused(h, foreign)
    ELSE IF "allow" \in a.bad THEN Refused(h, ControlError.allow)
    ELSE next

control_files(a, h) ==
    LET p == build_request_operation(a.op, a.params)
    IN  Owned(a, h, NotDeviceOwner,
            IF "err" \in DOMAIN p THEN Answered(h, 400, p.err) ELSE maybe_inject(h, p, TRUE))
control_files_upload_url(a, h) == Owned(a, h, NotDeviceOwner, create_upload_url(h))
browser_command_control(a, h) == Owned(a, h, NotDeviceOwner, [h EXCEPT !.pc = "send"])
create_job(a, h) ==
    Owned(a, h, ControlError.allow,
        IF devUp THEN Answered(h, 202, "") ELSE Refused(h, ControlError.offline))
invoke_app_tool(a, h) ==
    Owned(a, h, ControlError.allow,
        IF devUp THEN [h EXCEPT !.pc = "send"]
        ELSE Refused([h EXCEPT !.audits = <<"offline">>], ControlError.conflict))
get_device_app_tools(a, h, stored) ==
    Owned(a, h, ControlError.allow,
        [Answered(h, 200, "") EXCEPT !.body = [stale |-> stored # "fresh" \/ ~devUp]])

Lookup(c) ==
    LET a == Ask(c)
        h == [api[c] EXCEPT !.held = devUser]
    IN  /\ api[c].pc = "lookup"
        /\ \/ Handler(c, Refused(h, ControlError.internal))
           \/ a.ep = "files" /\ Handler(c, control_files(a, h))
           \/ a.ep = "upload" /\ Handler(c, control_files_upload_url(a, h))
           \/ a.ep = "browser" /\ Handler(c, browser_command_control(a, h))
           \/ a.ep = "jobs" /\ Handler(c, create_job(a, h))
           \/ a.ep = "tool" /\ Handler(c, invoke_app_tool(a, h))
           \/ a.ep = "catalog" /\ \E stored \in {"none", "fresh", "stale"} :
                Handler(c, get_device_app_tools(a, h, stored))
        /\ UNCHANGED <<worldVars, cells, refills, s3, bucket>>

(* The dashboard's request is protobuf already.                            *)
Inject(c) ==
    /\ api[c].pc = "inject"
    /\ Handler(c, maybe_inject(api[c], Ask(c).params, FALSE))
    /\ UNCHANGED <<worldVars, cells, refills, s3, bucket>>

(* generate_upload_url, generate_download_url: local, but may fail.        *)
Presign(c) ==
    /\ api[c].pc = "presign"
    /\ \/ Handler(c, Refused(api[c], PresignFailed))
       \/ Handler(c, IF Ask(c).ep = "upload"
                     THEN [Answered(api[c], 200, "") EXCEPT !.body = [key |-> <<"file-ops", "dev", c>>]]
                     ELSE [api[c] EXCEPT !.pc = "send"])
    /\ UNCHANGED <<worldVars, cells, refills, s3, bucket>>

----------------------------------------------------------------------------
(* How long the hub waits: a file call within the operator's ceiling, a    *)
(* browser call at least a second, a tool call for the device's own        *)
(* timeout and a grace.  0 stands for a timeout that was not given.        *)
AtLeast(n, m) == IF n < m THEN m ELSE n
AtMost(n, m) == IF n > m THEN m ELSE n
effective_ms(t) == AtMost(AtLeast(IF t = 0 THEN 30000 ELSE t, 1000), AtLeast(FileCeiling, 1000))
clamp_timeout(t) == IF t = 0 THEN 60000 ELSE AtMost(AtLeast(t, 1000), 300000)
GraceMs == 2000
HubWaits(a) ==
    CASE a.ep = "files" -> effective_ms(a.timeout)
      [] a.ep = "dash_files" -> FileCeiling
      [] a.ep = "tool" -> clamp_timeout(a.timeout) + GraceMs
      [] OTHER -> AtLeast(IF a.timeout = 0 THEN 30000 ELSE a.timeout, 1000)

map_service_error ==
    [capacity |-> <<503, "FILE_REQUESTS_SATURATED">>, duplicate |-> <<409, "FILE_REQUEST_DUPLICATE">>,
     offline |-> <<409, "DEVICE_OFFLINE">>, timeout |-> <<504, "DEVICE_TIMEOUT">>,
     closed |-> <<500, "INTERNAL_ERROR">>, internal |-> <<500, "INTERNAL_ERROR">>]
map_browser_error ==
    [gone |-> <<404, "DEVICE_NOT_FOUND">>, offline |-> <<404, "DEVICE_OFFLINE">>,
     incapable |-> <<400, "NO_BROWSER_CAPABILITY">>, timeout |-> <<504, "TIMEOUT">>,
     closed |-> <<500, "INTERNAL_ERROR">>, internal |-> <<500, "INTERNAL_ERROR">>]
map_app_tool_error ==
    [offline |-> <<409, "DEVICE_OFFLINE">>, timeout |-> <<504, "TIMEOUT">>,
     closed |-> <<500, "INTERNAL_ERROR">>]
IsFile(a) == a.ep \in {"files", "dash_files"}
ServiceError(a) ==
    IF IsFile(a) THEN map_service_error
    ELSE IF a.ep = "tool" THEN map_app_tool_error ELSE map_browser_error

(* audit_invocation at every way out of invoke_app_tool.                   *)
Audited(a, h, outcome) ==
    IF a.ep = "tool" THEN [h EXCEPT !.audits = Append(@, outcome)] ELSE h
Fails(a, h, e) == Refused(Audited(a, h, e), ServiceError(a)[e])

(* What may keep the request from the device: file_service::execute,       *)
(* browser_service::execute (which looks the device up again) and          *)
(* app_tool_service::invoke.                                               *)
FileSendErrors(a) ==
    {"capacity", "internal"} \cup (IF devUp THEN {} ELSE {"offline"})
        \cup (IF a.ep = "dash_files" THEN {"duplicate"} ELSE {})
BrowserSendErrors ==
    IF devUser = "gone" THEN {"gone", "internal"}
    ELSE {"offline", "internal"} \cup (IF devUp THEN {"incapable"} ELSE {})
AppToolSendErrors == {"offline"}
SendErrors(a) ==
    IF IsFile(a) THEN FileSendErrors(a) ELSE IF a.ep = "tool" THEN AppToolSendErrors ELSE BrowserSendErrors

(* The services' execute up to the send; cancel_job sends and forgets.     *)
Execute(c) ==
    LET a == Ask(c)
        h == [api[c] EXCEPT !.wait = HubWaits(a), !.pc = "wait"]
    IN  /\ api[c].pc = "send"
        /\ \/ a.ep = "cancel" /\ Handler(c, Answered(api[c], 202, ""))
           \/ a.ep # "cancel" /\ \E e \in SendErrors(a) : Handler(c, Fails(a, api[c], e))
           \/ /\ a.ep # "cancel" /\ devUp
              /\ a.ep \in {"browser", "dash_browser"} => devUser # "gone"
              /\ Handler(c, IF IsFile(a) THEN h ELSE [h EXCEPT !.sent = [asked |-> a.ep]])
        /\ UNCHANGED <<worldVars, cells, refills, s3, bucket>>

TimesOut(c) ==
    /\ api[c].pc = "wait"
    /\ \E e \in {"timeout", "closed"} : Handler(c, Fails(Ask(c), api[c], e))
    /\ UNCHANGED <<worldVars, cells, refills, s3, bucket>>

----------------------------------------------------------------------------
(* External: what the device answers, the converted fields only.           *)
WriteActions(p) ==
    CASE p.method = "append" -> {"Appended"} [] p.method = "full_write" -> {"Created", "Overwritten"}
      [] OTHER -> {"Edited"}
DeviceResults(op, p) ==
    CASE op = "stat" -> {[file_type |-> f, windows_acl |-> <<"deny">>] : f \in {"Symlink", Unknown}}
      [] op \in {"list", "glob"} -> {[entries |-> <<"Directory", "File">>]}
      [] op = "read_text" -> {[stop_reason |-> "MaxBytes"]}
      [] op = "read_binary" -> {[content |-> b, url |-> ""] : b \in {"A"} \cup Large}
      [] op = "read_image" -> {[content |-> b, url |-> "", format |-> p.output_format.v] : b \in {"A"} \cup Large}
      [] op = "read_pdf" -> {[mode |-> p.mode.v, raw_content |-> b, images |-> <<"png">>] : b \in {"", "A"}}
      [] op = "write" -> {[action |-> w] : w \in WriteActions(p)}
      [] op = "delete" -> {[mode |-> p.mode.v]}
      [] OTHER -> {[path |-> "p"]}
Failure(code) == [variant |-> "Error", code |-> code]
DeviceAnswers(a, p) ==
    IF IsFile(a)
    THEN {[variant |-> a.op, body |-> r] : r \in DeviceResults(a.op, p)} \cup
         {Failure("NotFound"), Failure("PolicyDenied"), Failure(Unknown), [variant |-> "None"]}
    ELSE {[variant |-> v] : v \in {"ok", "Error", "None"} \cup
                                  (IF a.ep = "tool" THEN {"ok_unparseable"} ELSE {})}

(* control_files: a refusal by policy is a 403, the rest an envelope.      *)
ControlFilesReply(a, h, ans) ==
    IF ans.variant = "Error" /\ ans.code = "PolicyDenied" THEN Refused(h, <<403, "POLICY_DENIED">>)
    ELSE [Answered(h, 200, "") EXCEPT !.body = build_response_envelope(ans, a.op)]

(* invoke_app_tool: a result that is not JSON is left out, not an error.   *)
AppToolReply(a, h, ans) ==
    [Answered(Audited(a, h, IF ans.variant = "None" THEN "ok" ELSE ans.variant), 200, "")
        EXCEPT !.body = [result |-> ans.variant = "ok", error |-> ans.variant = "Error"]]

(* browser_command, browser_command_control.                               *)
BrowserReply(h, ans) ==
    [Answered(h, 200, "") EXCEPT !.body = [success |-> ans.variant = "ok", error |-> ans.variant = "Error"]]

(* maybe_swap_large_read_response, up to the presigning.                   *)
IsLarge(ans) == ans.variant \in {"read_binary", "read_image"} /\ ans.body.content \in Large
maybe_swap(h, ans) ==
    IF s3 /\ IsLarge(ans) THEN [h EXCEPT !.pc = "upload"]
    ELSE [Answered(h, 200, "") EXCEPT !.body = ans]

Answer(c) ==
    LET a == Ask(c) IN
    /\ api[c].pc = "wait"
    /\ \E ans \in DeviceAnswers(a, api[c].sent) :
        LET h == [api[c] EXCEPT !.answer = ans]
        IN  Handler(c, CASE a.ep = "files" -> ControlFilesReply(a, h, ans)
                         [] a.ep = "dash_files" -> maybe_swap(h, ans)
                         [] a.ep = "tool" -> AppToolReply(a, h, ans)
                         [] OTHER -> BrowserReply(h, ans))
    /\ UNCHANGED <<worldVars, cells, refills, s3, bucket>>

(* upload_bytes.                                                           *)
Stored(c) == bucket \cup {[key |-> c, bytes |-> api[c].answer.body.content]}
Swapped(h, c) ==
    [Answered(h, 200, "") EXCEPT !.body = [h.answer EXCEPT !.body.content = "", !.body.url = c]]

(* Mutant: the object first, the URL after.                                *)
MutUpload(c) ==
    /\ api[c].pc = "upload"
    /\ bucket' = Stored(c)
    /\ Handler(c, Refused(api[c], PresignFailed)) \/ Handler(c, Swapped(api[c], c))
    /\ UNCHANGED <<worldVars, cells, refills, s3>>

(* upload_and_presign: the URL first, then the object; a failed upload may *)
(* have reached the bucket.                                                *)
Upload(c) ==
    /\ api[c].pc = "upload"
    /\ \/ Handler(c, Refused(api[c], PresignFailed)) /\ UNCHANGED bucket
       \/ Handler(c, Answered(api[c], 502, "S3_UPLOAD_FAILED")) /\ bucket' \in {bucket, Stored(c)}
       \/ Handler(c, Swapped(api[c], c)) /\ bucket' = Stored(c)
    /\ UNCHANGED <<worldVars, cells, refills, s3>>

----------------------------------------------------------------------------
(* The client hangs up; the handler's future is dropped where it waits.    *)
HangUp(c) ==
    /\ api[c].pc \in {"lookup", "presign", "send", "wait", "upload"}
    /\ Handler(c, [api[c] EXCEPT !.pc = "left"])
    /\ bucket' \in {bucket} \cup (IF api[c].pc = "upload" THEN {Stored(c)} ELSE {})
    /\ UNCHANGED <<worldVars, cells, refills, s3>>

(* The row is claimed by another user or deleted; the link drops or comes  *)
(* back; the limiter gives a cell back.                                    *)
WorldTurns ==
    /\ turns < MaxTurns
    /\ turns' = turns + 1
    /\ \/ devUser' \in (ApiUsers \cup {"gone"}) \ {devUser} /\ UNCHANGED devUp
       \/ devUp' = ~devUp /\ UNCHANGED devUser
    /\ UNCHANGED <<cells, refills, s3, bucket, api>>
Refill(u) ==
    /\ cells[u] < RateBurst /\ refills[u] < MaxRefills
    /\ cells' = [cells EXCEPT ![u] = @ + 1]
    /\ refills' = [refills EXCEPT ![u] = @ + 1]
    /\ UNCHANGED <<worldVars, s3, bucket, api>>

ControlApiNext ==
    \/ \E c \in ApiCalls :
          \/ Arrive(c) \/ Lookup(c) \/ Inject(c) \/ Presign(c) \/ Execute(c) \/ TimesOut(c)
          \/ Answer(c) \/ Upload(c) \/ HangUp(c)
    \/ WorldTurns
    \/ \E u \in ApiUsers : Refill(u)

----------------------------------------------------------------------------
(* Nothing reaches the device and no URL is given out for a control call   *)
(* unless its user owned the device when the row was read and the token    *)
(* lists it, whoever the device belongs to by the time it is sent.         *)
OnlyOwned ==
    \A c \in ApiCalls :
        LET h == api[c] IN
        ~Dashboard(Ask(c)) /\ Ask(c).ep \notin {"cancel", "output"} /\
        (h.pc \in {"send", "wait", "presign"} \/ h.status \in {200, 202}) =>
            h.held = Ask(c).user /\ Ask(c).bad \cap {"token", "scope", "allow"} = {}

(* Rate-limit before any store or device work: what users' calls got past  *)
(* the checks never exceeds the cells the limiter handed out.              *)
WorkIsPaid ==
    \A u \in ApiUsers :
        /\ Cardinality({c \in ApiCalls :
            /\ Ask(c).user = u /\ ~Dashboard(Ask(c))
            /\ \/ api[c].held # "" \/ api[c].pc \in {"lookup", "send"}
               \/ api[c].status \in {200, 202}}) + cells[u] <= RateBurst + refills[u]
        /\ cells[u] >= 0

(* A word of an enum in any case means itself, jpg is jpeg, and only a     *)
(* word that is absent or empty means the default.                         *)
Means(given, word) ==
    IF given = "" THEN word \in {"trash", "auto", "original"}
    ELSE word = IF ToLower(given) = "jpg" THEN "jpeg" ELSE ToLower(given)
Given(o, f) == IF f \in DOMAIN o /\ o[f].t = "s" THEN o[f].v ELSE ""
SameFields(p, o) ==
    \A f \in DOMAIN o \cap DOMAIN p : p[f].t \in {"s", "n", "b", "l"} => p[f] = o[f]

(* The device is asked what the caller wrote: every plain field as given,  *)
(* every word by its meaning (a typo is refused, never turned into the     *)
(* default), by a method the caller named, with that method's fields.      *)
AskedAsWritten ==
    \A c \in ApiCalls :
        Ask(c).ep = "files" /\ api[c].wait > 0 =>
            LET o == Ask(c).params
                p == api[c].sent
            IN  /\ SameFields(p, o)
                /\ \A f \in DOMAIN p \cap {"mode", "output_format"} :
                      p[f].t = "e" => Means(Given(o, f), p[f].v)
                /\ "method" \in DOMAIN p =>
                      p.method \in DOMAIN o /\ (p.method # "windows" => SameFields(p.with, o[p.method].v))

(* The caller is told what the device answered: success exactly for a      *)
(* result, a refusal by policy as a 403 and in no other way, and the mode  *)
(* of a deletion as asked for.                                             *)
ToldAsAnswered ==
    \A c \in ApiCalls :
        LET h == api[c]
            a == Ask(c)
        IN  a.ep = "files" /\ h.pc = "replied" /\ h.answer # NoBody =>
            /\ (h.status = 403) = (h.answer.variant = "Error" /\ h.answer.code = "PolicyDenied")
            /\ h.status = 200 =>
                /\ h.body.operation = a.op
                /\ h.body.success = (h.answer.variant \notin {"Error", "None"})
                /\ h.body.success = (h.body.error = "")
                /\ h.body.error # "policy_denied"
                /\ h.body.success /\ a.op = "delete" =>
                     Means(Given(a.params, "mode"), h.body.result.mode)

(* A large read carries its bytes or the URL of an object that has exactly *)
(* them, never neither; when no URL could be signed, no object was made    *)
(* ("fail BEFORE creating an orphaned object").                            *)
LargeReadsLand ==
    \A c \in ApiCalls :
        LET h == api[c] IN
        Ask(c).ep = "dash_files" /\ h.pc = "replied" =>
            /\ h.code = "S3_PRESIGN_FAILED" => \A o \in bucket : o.key # c
            /\ h.status = 200 /\ h.body.variant \in {"read_binary", "read_image"} =>
                 IF h.body.body.url = "" THEN h.body.body.content = h.answer.body.content
                 ELSE h.body.body.content = "" /\ [key |-> c, bytes |-> h.answer.body.content] \in bucket

(* An answered tool call past the ownership check has exactly one audit    *)
(* entry, of the outcome its caller was told; the hub gives up on a tool   *)
(* only after the device has, and on a file within the operator's ceiling. *)
CallsAccounted ==
    \A c \in ApiCalls :
        LET h == api[c]
            a == Ask(c)
        IN  /\ a.ep = "tool" /\ h.pc = "replied" /\ h.status \in {200, 409, 504} =>
                 /\ Len(h.audits) = 1
                 /\ h.status = 409 <=> h.audits[1] = "offline"
                 /\ h.status = 504 <=> h.audits[1] = "timeout"
            /\ a.ep = "tool" /\ h.wait > 0 => h.wait > clamp_timeout(a.timeout)
            /\ a.ep = "files" /\ h.wait > 0 => h.wait \in 1000..AtLeast(FileCeiling, 1000)

(* What the endpoints promise their callers, their users and the device.   *)
ApiSound ==
    OnlyOwned /\ WorkIsPaid /\ AskedAsWritten /\ ToldAsAnswered /\ LargeReadsLand /\ CallsAccounted
=============================================================================
