------------------------------- MODULE Browser -------------------------------
(***************************************************************************)
(* The daemon's BrowserManager and its callers: requests of IPC clients,   *)
(* each in a task of its own, and the OpenClaw proxy, which translates     *)
(* HTTP routes to commands.  A command is a playwright-cli process that    *)
(* acts on the browser of a session.  The manager gives up on a process    *)
(* after a timeout and does not kill it: it may still act later.           *)
(***************************************************************************)
EXTENDS Naturals, Sequences, FiniteSets

CONSTANTS BrowserCalls,  \* concurrent calls
          BrowserAsks,   \* what they ask: an IPC action, a route or a kind of POST /act
          DeniedDomains, AllowedDomains,  \* patterns: [wild, labels]
          MaxSessions,   \* BrowserConfig.max_sessions
          MaxFiles       \* bound: files downloaded

VARIABLES
    active,    \* BrowserManager.active_sessions
    open,      \* sessions whose browser is open
    bpc, bask, \* of each call: where it is; its door, session, action, parameters
    argv,      \* parameters that reached the command line
    strays,    \* processes the manager gave up on: session and action
    doubtful,  \* history: sessions a stray, failed or overlapping command touched
    files,     \* downloads: session, the call whose click began it, complete or not
    before,    \* of each download, the files it saw first
    got        \* of each download, what it returned

browserVars == <<active, open, bpc, bask, argv, strays, doubtful, files, before, got>>

StrP(name) == [name |-> name, type |-> "string"]
IntP(name) == [name |-> name, type |-> "int"]
ArrP(name) == [name |-> name, type |-> "array"]
Cmd(action, params) == [action |-> action, params |-> params]

BrowserInit ==
    /\ active = {} /\ open = {} /\ strays = {} /\ doubtful = {} /\ files = {}
    /\ bpc = [c \in BrowserCalls |-> "new"]
    /\ bask = [c \in BrowserCalls |-> [door |-> "none", session |-> "none", action |-> "none",
                                       params |-> {}, submit |-> FALSE]]
    /\ argv = [c \in BrowserCalls |-> {}]
    /\ before = [c \in BrowserCalls |-> {}]
    /\ got = [c \in BrowserCalls |-> {}]

----------------------------------------------------------------------------
(* translate_act_kind: what POST /act passes on of a complete body; a wait *)
(* without a text becomes a delay in the page.                             *)
ActKinds == {"click", "type", "press", "hover", "scrollIntoView", "select", "fill", "evaluate",
             "wait", "wait text", "close", "drag", "resize"}

translate_act_kind(kind) ==
    CASE kind \in {"click", "hover"} -> Cmd(kind, {StrP("ref")})
      [] kind \in {"type", "fill"} -> Cmd("fill", {StrP("ref"), StrP("text")})
      [] kind = "press" -> Cmd("press", {StrP("key")})
      [] kind \in {"scrollIntoView", "evaluate"} -> Cmd("eval", {StrP("expression"), StrP("ref")})
      [] kind = "select" -> Cmd("select", {StrP("ref"), StrP("value")})
      [] kind = "wait" -> Cmd("eval", {StrP("expression")})
      [] kind = "wait text" -> Cmd("wait", {StrP("text")})
      [] kind = "close" -> Cmd("close", {})
      [] kind = "drag" -> Cmd("drag", {StrP("startRef"), StrP("endRef")})
      [] kind = "resize" -> Cmd("resize", {IntP("width"), IntP("height")})

(* translate_http_to_cli: the routes, and no command for any other.        *)
Routes == {"GET /snapshot", "POST /screenshot", "POST /navigate", "POST /pdf", "GET /tabs",
           "POST /tabs/open", "DELETE /tabs", "POST /start", "POST /stop", "GET /", "GET /profiles",
           "GET /console", "POST /download", "POST /wait/download", "POST /hooks/file-chooser",
           "POST /hooks/dialog", "POST /hooks/dialog dismiss", "POST /tabs/focus"}

Unsupported == Cmd("unsupported", {})

translate_http_to_cli(route) ==
    IF route \notin Routes THEN Unsupported ELSE
    CASE route = "GET /snapshot" -> Cmd("snapshot", {})
      [] route = "POST /screenshot" -> Cmd("screenshot", {StrP("ref")})
      [] route = "POST /navigate" -> Cmd("goto", {StrP("url")})
      [] route = "POST /pdf" -> Cmd("pdf", {})
      [] route = "GET /tabs" -> Cmd("tab-list", {})
      [] route = "POST /tabs/open" -> Cmd("tab-new", {StrP("url")})
      [] route = "DELETE /tabs" -> Cmd("tab-close", {})
      [] route = "POST /start" -> Cmd("open", {})
      [] route = "POST /stop" -> Cmd("close", {})
      [] route \in {"GET /", "GET /profiles"} -> Cmd("list", {})
      [] route = "GET /console" -> Cmd("console", {})
      [] route \in {"POST /download", "POST /wait/download"} -> Cmd("download", {StrP("ref")})
      [] route = "POST /hooks/file-chooser" -> Cmd("upload", {ArrP("paths")})
      [] route = "POST /hooks/dialog" -> Cmd("dialog-accept", {StrP("promptText")})
      [] route = "POST /hooks/dialog dismiss" -> Cmd("dialog-dismiss", {})
      [] route = "POST /tabs/focus" -> Cmd("tab-select", {StrP("index")})

(* params_to_cli_args: what each command takes, by name and type; a        *)
(* command it does not know gets every string, and an upload of a file     *)
(* looks at no paths.                                                      *)
Takes(action, p) ==
    CASE action \in {"goto", "open", "tab-new"} -> p = StrP("url")
      [] action \in {"click", "hover", "screenshot"} -> p = StrP("ref")
      [] action = "fill" -> p \in {StrP("ref"), StrP("text")}
      [] action = "type" -> p = StrP("text")
      [] action = "select" -> p \in {StrP("ref"), StrP("value")}
      [] action = "press" -> p = StrP("key")
      [] action = "eval" -> p \in {StrP("expression"), StrP("ref")}
      [] action = "drag" -> p \in {StrP("startRef"), StrP("endRef")}
      [] action = "resize" -> p \in {IntP("width"), IntP("height")}
      [] action = "upload" -> p \in {StrP("file"), ArrP("paths")}
      [] action = "dialog-accept" -> p = StrP("promptText")
      [] action \in {"tab-close", "tab-select"} -> p = IntP("index")
      [] action \in {"pdf", "snapshot", "dialog-dismiss"} -> FALSE
      [] OTHER -> p.type = "string"

params_to_cli_args(action, params) ==
    {p \in params : /\ Takes(action, p)
                    /\ ~(action = "upload" /\ p = ArrP("paths") /\ StrP("file") \in params)}

Translated(a) ==
    CASE "kind" \in DOMAIN a -> translate_act_kind(a.kind)
      [] "route" \in DOMAIN a -> translate_http_to_cli(a.route)
      [] OTHER -> Cmd(a.action, a.params)

(* A request names parameters its command takes, but for the index of a    *)
(* tab, which a caller may give as a string.                               *)
ASSUME BrowserAssumption ==
    /\ MaxSessions \in Nat
    /\ \A a \in BrowserAsks :
         \/ "kind" \in DOMAIN a /\ "route" \notin DOMAIN a /\ a.kind \in ActKinds
         \/ "kind" \notin DOMAIN a /\ "route" \in DOMAIN a
         \/ /\ "kind" \notin DOMAIN a /\ "route" \notin DOMAIN a
            /\ a.action = "tab-select" \/ params_to_cli_args(a.action, a.params) = a.params

domain_matches(domain, pattern) ==
    \/ domain = pattern.labels
    \/ pattern.wild /\ \E i \in DOMAIN domain : SubSeq(domain, i, Len(domain)) = pattern.labels

(* Only navigations are checked, and an empty host passes.                 *)
check_domain(action, host) ==
    action \in {"goto", "open"} /\ host # <<>> =>
        /\ \A p \in DeniedDomains : ~domain_matches(host, p)
        /\ AllowedDomains # {} => \E p \in AllowedDomains : domain_matches(host, p)

(* The arms of the IPC loop, the cloud client and the proxy up to the      *)
(* dispatch: a capability that is missing, a route that is not known or a  *)
(* domain ends the call.                                                   *)
AskBrowser(c) ==
    /\ bpc[c] = "new"
    /\ \E a \in BrowserAsks, available \in BOOLEAN :
         LET t == Translated(a)
         IN  /\ bask' = [bask EXCEPT ![c] =
                   [door |-> IF "action" \in DOMAIN a THEN "request" ELSE "proxy",
                    session |-> a.session, action |-> t.action, params |-> t.params,
                    submit |-> a.submit]]
             /\ bpc' = [bpc EXCEPT ![c] =
                   IF available /\ t # Unsupported /\ check_domain(t.action, a.host)
                   THEN "asked" ELSE "answered"]
    /\ UNCHANGED <<active, open, argv, strays, doubtful, files, before, got>>

(* The proxy sends these two elsewhere than to execute.                    *)
Polls(c) == bask[c].door = "proxy" /\ bask[c].action \in {"download", "wait"}

----------------------------------------------------------------------------
MoveTo(c, l) == bpc' = [bpc EXCEPT ![c] = l]

(* A command entering a session while another of it closes it.            *)
Overlaps(c) ==
    \E d \in BrowserCalls \ {c} :
        /\ bpc[d] \in {"spawning", "running", "ended", "failed"} /\ bask[d].session = bask[c].session
        /\ "close" \in {bask[c].action, bask[d].action}

(* Mutant: the limit is looked at, the session not remembered.             *)
MutEnter(c) ==
    /\ bpc[c] = "asked" /\ ~Polls(c)
    /\ IF bask[c].session \notin active /\ Cardinality(active) >= MaxSessions
       THEN MoveTo(c, "refused") ELSE MoveTo(c, "spawning")
    /\ UNCHANGED <<active, open, bask, argv, strays, doubtful, files, before, got>>

(* execute: the session limit, under the mutex.                            *)
Enter(c) ==
    /\ bpc[c] = "asked" /\ ~Polls(c)
    /\ IF bask[c].session \notin active /\ Cardinality(active) >= MaxSessions
       THEN MoveTo(c, "refused") /\ UNCHANGED active
       ELSE MoveTo(c, "spawning") /\ active' = active \cup {bask[c].session}
    /\ doubtful' = IF Overlaps(c) THEN doubtful \cup {bask[c].session} ELSE doubtful
    /\ UNCHANGED <<open, bask, argv, strays, files, before, got>>

(* The command line is built and the process spawned, or not.              *)
SpawnCli(c) ==
    /\ bpc[c] = "spawning"
    /\ argv' = [argv EXCEPT ![c] = params_to_cli_args(bask[c].action, bask[c].params)]
    /\ \E to \in {"running", "failed"} : MoveTo(c, to)
    /\ UNCHANGED <<active, open, bask, strays, doubtful, files, before, got>>

(* What a command does to its session's browser.                           *)
TakesEffect(s, action) ==
    open' = CASE action = "open" -> open \cup {s}
              [] action = "close" -> open \ {s}
              [] OTHER -> open

(* The process exits; one that fails may have acted or not.                *)
CliEnds(c, ok) ==
    /\ bpc[c] = "running"
    /\ LET s == bask[c].session
       IN  /\ \/ TakesEffect(s, bask[c].action)
              \/ ~ok /\ UNCHANGED open
           /\ doubtful' = IF ok THEN doubtful ELSE doubtful \cup {s}
    /\ IF ok /\ bask[c].action = "fill" /\ bask[c].submit
       THEN /\ bask' = [bask EXCEPT ![c] = [@ EXCEPT !.action = "press", !.params = {StrP("key")},
                                                  !.submit = FALSE]]
            /\ MoveTo(c, "asked")
       ELSE MoveTo(c, IF ok THEN "ended" ELSE "failed") /\ UNCHANGED bask
    /\ UNCHANGED <<active, argv, strays, files, before, got>>

(* The manager's patience ends, not the process.                           *)
CliTimesOut(c) ==
    /\ bpc[c] \in {"running", "clicking"}
    /\ strays' = strays \cup {[session |-> bask[c].session, action |-> bask[c].action]}
    /\ doubtful' = doubtful \cup {bask[c].session}
    /\ MoveTo(c, "failed")
    /\ UNCHANGED <<active, open, bask, argv, files, before, got>>

StrayActs(p) ==
    /\ p \in strays /\ strays' = strays \ {p}
    /\ TakesEffect(p.session, p.action)
    /\ UNCHANGED <<active, bpc, bask, argv, doubtful, files, before, got>>

(* The callers release the session after a close, whatever came of it.     *)
AnswerBrowser(c) ==
    /\ bpc[c] \in {"ended", "failed", "refused"}
    /\ LET s == bask[c].session
           closes == bask[c].action = "close"
       IN  /\ active' = IF closes THEN active \ {s} ELSE active
           /\ doubtful' = IF closes /\ bpc[c] # "ended" THEN doubtful \cup {s} ELSE doubtful
    /\ MoveTo(c, "answered")
    /\ UNCHANGED <<open, bask, argv, strays, files, before, got>>

----------------------------------------------------------------------------
(* execute_download: look, click, then poll for a new complete file.  The  *)
(* click does not go through the session limit.                            *)
LookFirst(c) ==
    /\ bpc[c] = "asked" /\ Polls(c) /\ bask[c].action = "download"
    /\ before' = [before EXCEPT ![c] = {f \in files : f.session = bask[c].session}]
    /\ MoveTo(c, "clicking")
    /\ UNCHANGED <<active, open, bask, argv, strays, doubtful, files, got>>

Clicked(c, ok) ==
    /\ bpc[c] = "clicking"
    /\ MoveTo(c, IF ok THEN "polling" ELSE "failed")
    /\ files' = IF ok /\ Cardinality(files) < MaxFiles
                THEN files \cup {[session |-> bask[c].session, by |-> c, whole |-> FALSE]}
                ELSE files
    /\ UNCHANGED <<active, open, bask, argv, strays, doubtful, before, got>>

(* The browser finishes a download: the partial name is gone.              *)
FileComplete(f) ==
    /\ f \in files /\ ~f.whole
    /\ files' = (files \ {f}) \cup {[f EXCEPT !.whole = TRUE]}
    /\ UNCHANGED <<active, open, bpc, bask, argv, strays, doubtful, before, got>>

Poll(c) ==
    /\ bpc[c] = "polling"
    /\ \E f \in files \ before[c] :
         f.session = bask[c].session /\ f.whole /\ got' = [got EXCEPT ![c] = {f}]
    /\ MoveTo(c, "ended")
    /\ UNCHANGED <<active, open, bask, argv, strays, doubtful, files, before>>

(* execute_wait_for_text: rounds of eval until the text is there.          *)
WaitForText(c) ==
    /\ \/ bpc[c] = "asked" /\ Polls(c) /\ bask[c].action = "wait"
       \/ bpc[c] = "waiting"
    /\ \E found \in BOOLEAN : MoveTo(c, IF found THEN "ended" ELSE "waiting")
    /\ UNCHANGED <<active, open, bask, argv, strays, doubtful, files, before, got>>

PollDeadline(c) ==
    /\ bpc[c] \in {"polling", "waiting"} /\ MoveTo(c, "failed")
    /\ UNCHANGED <<active, open, bask, argv, strays, doubtful, files, before, got>>

BrowserNext ==
    \/ \E c \in BrowserCalls :
          \/ AskBrowser(c) \/ Enter(c) \/ SpawnCli(c) \/ CliTimesOut(c) \/ AnswerBrowser(c)
          \/ LookFirst(c) \/ Poll(c) \/ WaitForText(c) \/ PollDeadline(c)
          \/ \E ok \in BOOLEAN : CliEnds(c, ok) \/ Clicked(c, ok)
    \/ \E p \in strays : StrayActs(p)
    \/ \E f \in files : FileComplete(f)

BrowserSpec == BrowserInit /\ [][BrowserNext]_browserVars

----------------------------------------------------------------------------
(* The limit holds, and a browser that is open is counted against it,      *)
(* unless a command of its session failed, outlived its timeout, or ran    *)
(* while another one closed the session.                                   *)
OpenIsCounted ==
    /\ Cardinality(active) <= MaxSessions
    /\ open \subseteq active \cup doubtful

(* What a route takes from its body reaches the command line, but for the  *)
(* index of POST /tabs/focus, which is a string where a number is taken.   *)
ArgumentsArrive ==
    \A c \in BrowserCalls :
        bpc[c] \in {"running", "ended"} /\ bask[c].action # "tab-select" /\ ~Polls(c) =>
            argv[c] = bask[c].params

(* A download returns a file of its session that is complete and was not   *)
(* complete when the download began.                                       *)
DownloadIsNew ==
    \A c \in BrowserCalls : \A f \in got[c] :
        f.whole /\ f.session = bask[c].session /\ f \notin before[c]

(* What the callers of the BrowserManager can rely on.                     *)
BrowserSound == OpenIsCounted /\ ArgumentsArrive /\ DownloadIsNew
=============================================================================
