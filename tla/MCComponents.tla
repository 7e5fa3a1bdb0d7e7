---------------------------- MODULE MCComponents -----------------------------
(* Components checked for what they may never do.  They share no state: a  *)
(* behaviour runs one of them, its part, on a small instance and leaves    *)
(* the others at rest.                                                     *)
EXTENDS PendingRequests, FileOps, FileRead, FileList, FileWrite, InMemoryOutbox, OpenClaw,
        Browser, Upgrade, Embedded, TLC

CONSTANTS f1, f2, f3, b1, k1, k2, k3

----------------------------------------------------------------------------
(* PendingRequests: two file calls under one id chosen by the client, a    *)
(* third under its own, and a browser or app-tool call.  That call shares  *)
(* neither a key nor the counter with the file calls, so it is run by      *)
(* itself.                                                                 *)
KeyOf == [c \in Calls |-> CASE c = b1 -> k3 [] c = f3 -> k2 [] OTHER -> k1]
PlainAlone == pc'[b1] = "new" \/ \A f \in Files : pc'[f] = "new"

----------------------------------------------------------------------------
(* FileOps: an allowed tree /w with a directory, its files, and a second   *)
(* device at /w/x, and a tree /o outside; the host may put a link to /o in *)
(* the place of /w/d.                                                      *)
TheNames == {"w", "o", "d", "e", "f", "g", "x"}
TheInodes == 1..18

Inode(kind, kids, body, dev) ==
    [kind |-> kind, kids |-> [n \in TheNames |-> IF n \in DOMAIN kids THEN kids[n] ELSE 0],
     body |-> body, to |-> <<>>, mode |-> 0, dev |-> dev]
NoKids == [n \in {} |-> 0]
TheTree ==
    [i \in TheInodes |->
       CASE i = 1 -> Inode("dir", [w |-> 2, o |-> 3], "", 0)
         [] i = 2 -> Inode("dir", [d |-> 4, f |-> 5, x |-> 6], "", 0)
         [] i = 3 -> Inode("dir", [f |-> 8], "", 0)
         [] i = 4 -> Inode("dir", [f |-> 7, x |-> 10], "", 0)
         [] i = 5 -> Inode("file", NoKids, "A", 0)
         [] i = 6 -> Inode("dir", NoKids, "", 1)
         [] i = 7 -> Inode("file", NoKids, "B", 0)
         [] i = 8 -> Inode("file", NoKids, "C", 0)
         [] i = 9 -> [Inode("link", NoKids, "", 0) EXCEPT !.to = <<"o">>]
         [] i = 10 -> Inode("file", NoKids, "", 0)
         [] OTHER -> Inode("free", NoKids, "", 0)]
ThePaths == [A |-> <<"w", "f">>, B |-> <<"w", "d", "f">>]
TheAllowed == {<<"w">>}
TheDangerous == {<<"w", "x">>, <<"w", "d", "x">>}
TheDir == <<"w", "d">>
TheAside == <<"w", "e">>

Op(o, p) ==
    [op |-> o, path |-> p, dest |-> <<>>, recursive |-> FALSE, overwrite |-> FALSE,
     nofollow |-> FALSE, permanent |-> TRUE, mode |-> 0, clean |-> TRUE]
OpTo(o, p, q) == [Op(o, p) EXCEPT !.dest = q]
TheMenu == {
    Op("stat", <<"w", "d", "f">>), Op("glob", <<"w", "d">>),
    Op("write", <<"w", "d", "g">>),
    Op("mkdir", <<"w", "d", "g">>),
    [Op("mkdir", <<"w", "g", "d">>) EXCEPT !.recursive = TRUE],
    [Op("mkdir", <<"w", "g", "e">>) EXCEPT !.recursive = TRUE, !.mode = 1],
    [Op("mkdir", <<"w", "g">>) EXCEPT !.clean = FALSE],
    OpTo("copy", <<"w", "f">>, <<"w", "d", "g">>),
    OpTo("copy", <<"w", "d", "f">>, <<"w", "d", "g">>),
    OpTo("copy", <<"w", "d">>, <<"w", "g">>),
    [OpTo("copy", <<"w", "d">>, <<"w", "g">>) EXCEPT !.recursive = TRUE],
    [OpTo("copy", <<"w", "f">>, <<"w", "d", "f">>) EXCEPT !.overwrite = TRUE],
    OpTo("move", <<"w", "f">>, <<"w", "d", "g">>),
    OpTo("move", <<"w", "f">>, <<"w", "x", "g">>),
    OpTo("move", <<"w", "d">>, <<"w", "x", "d">>),
    Op("delete", <<"w", "d">>),
    [Op("delete", <<"w", "d">>) EXCEPT !.recursive = TRUE],
    Op("delete", <<"w", "d", "f">>),
    Op("delete", <<"w", "x">>),
    [Op("delete", <<"w", "x">>) EXCEPT !.permanent = FALSE],
    OpTo("symlink", <<"w", "d", "g">>, <<"w", "f">>),
    [Op("chmod", <<"w", "d", "f">>) EXCEPT !.mode = 2],
    [Op("chmod", <<"w", "d">>) EXCEPT !.mode = 2, !.recursive = TRUE, !.nofollow = TRUE] }

----------------------------------------------------------------------------
(* FileRead: every well-formed file of up to five bytes.                   *)
WellFormed(b) ==
    /\ \A i \in DOMAIN b : b[i] = "c" <=> (i > 1 /\ b[i - 1] = "L")
    /\ b = <<>> \/ b[Len(b)] # "L"
TheContents ==
    {b \in UNION {[1..n -> {"x", "L", "c", "r", "n"}] : n \in 0..5} : WellFormed(b)}
TheTextLimits == [lines : {1, 2}, bytes : {1, 2, 4}, width : {0, 2}, target : {NoTarget, 3}]
TheBinaryLimits == [length : {0, 2}, max : {1, 3}]
ThePdfLimits ==
    {[mode |-> "imgs", dflt |-> 1, max |-> 2], [mode |-> "text", dflt |-> 2, max |-> 2],
     [mode |-> "raw", dflt |-> 0, max |-> 2]}

----------------------------------------------------------------------------
(* FileWrite: one request of each kind, at and over the limits.            *)
Asked == [edit |-> FALSE, utf8 |-> TRUE, parents |-> FALSE]
Full(c) == Asked @@ [method |-> "full", content |-> c]
App(c) == Asked @@ [method |-> "append", content |-> c]
S3(u, d, ch) == Asked @@ [method |-> "s3", url |-> u, declared |-> d, chunks |-> ch]
Str(o, n, a) == Asked @@ [method |-> "string", old |-> o, new |-> n, all |-> a]
Ln(s, e, n) == Asked @@ [method |-> "lines", start |-> s, end |-> e, new |-> n]
Bt(o, l, n) == Asked @@ [method |-> "bytes", offset |-> o, length |-> l, new |-> n]
NoMethod == Asked @@ [method |-> "missing"]
Edit(q) == [q EXCEPT !.edit = TRUE]
TheWrites ==
    {Full(<<"x">>), [Full(<<"y", "n">>) EXCEPT !.parents = TRUE],
     [Full(<<"x">>) EXCEPT !.utf8 = FALSE], Full(<<"x", "x", "x", "x", "x">>),
     App(<<"a", "b">>), App(<<"c">>), S3("none", 1, <<>>), S3("file", 1, <<>>),
     S3("http", 2, <<<<"u">>, <<"v">>>>), S3("http", 1, <<<<"u", "u">>, <<"v", "v">>, <<"w">>>>),
     Str(<<"x">>, <<"y", "y">>, FALSE), Edit(Str(<<"x">>, <<"y">>, FALSE)),
     Edit(Str(<<"x">>, <<"z">>, TRUE)), Edit(Str(<<"q">>, <<"z">>, TRUE)),
     Ln(1, 1, <<"z">>), Ln(2, 9, <<>>), Ln(2, 1, <<>>), Edit(Ln(2, 2, <<"z">>)),
     Edit(Ln(1, 1, <<"z", "n", "z">>)), Bt(1, 1, <<"b">>), Bt(2, 7, <<>>), Bt(0, 3, <<"b">>),
     Edit(Bt(1, 0, <<"b">>)), NoMethod, Edit(NoMethod), [Edit(NoMethod) EXCEPT !.utf8 = FALSE]}
TheFiles == {Absent, <<"x", "n", "x">>, <<"x", "n", "y", "n">>}

----------------------------------------------------------------------------
(* OpenClaw: a plain command, one it cannot read, runs with and without an *)
(* approval, with a PATH that adds to the base or does not, with output at *)
(* and over the caps, and two edits of the approvals file, one stale.      *)
Plain0(c) == [cmd |-> c, valid |-> TRUE]
Run0(a, p, o, e, w) ==
    [cmd |-> "run", valid |-> TRUE, approval |-> a, path |-> p, out |-> o, err |-> e, wide |-> w]
Set0(b, n) == [cmd |-> "set", valid |-> TRUE, base |-> b, new |-> n]
TheInvocations ==
    {Plain0("which"), [Plain0("run") EXCEPT !.valid = FALSE],
     Run0("missing", NoOverride, <<>>, <<>>, FALSE),
     Run0("allow", <<"x", "b">>, <<2, 1>>, <<>>, TRUE),
     Run0("deny", <<"b", "x">>, <<1, 1, 1>>, <<3>>, FALSE), Set0(0, 1), Set0(1, 3)}
TheBase == <<"b">>

----------------------------------------------------------------------------
(* Browser: two sessions under a limit of one, navigations a pattern       *)
(* allows, denies and does not list, and commands that carry parameters.   *)
Page(s, h) == [session |-> s, submit |-> FALSE, host |-> h]
TheAsks ==
    {[action |-> "open", params |-> {}] @@ Page("s1", <<"a", "b">>),
     [action |-> "open", params |-> {StrP("url")}] @@ Page("s1", <<"b">>),
     [action |-> "open", params |-> {StrP("url")}] @@ Page("s1", <<"c">>),
     [route |-> "POST /start"] @@ Page("s2", <<>>), [route |-> "POST /stop"] @@ Page("s1", <<>>),
     [route |-> "POST /tabs/focus"] @@ Page("s1", <<>>), [route |-> "PUT /tabs"] @@ Page("s1", <<>>),
     [route |-> "POST /download"] @@ Page("s1", <<>>),
     [route |-> "POST /hooks/file-chooser"] @@ Page("s1", <<>>),
     [kind |-> "wait text"] @@ Page("s1", <<>>), [kind |-> "resize"] @@ Page("s1", <<>>),
     [[kind |-> "type"] @@ Page("s1", <<>>) EXCEPT !.submit = TRUE]}
DeniedHosts == {[wild |-> FALSE, labels |-> <<"b">>]}
AllowedHosts == {[wild |-> TRUE, labels |-> <<"b">>]}

----------------------------------------------------------------------------
(* Upgrade: an upgrade or a stop against a start or a restart, beside a    *)
(* daemon that may update itself.                                          *)
TheCommands == [c1 |-> {"upgrade", "stop"}, c2 |-> {"start", "restart"}]

(* Embedded: two callers in one process and one in another.                *)
TheProcesses == <<"a", "a", "b">>

----------------------------------------------------------------------------
VARIABLE part

componentVars ==
    <<part, vars, fileVars, readVars, listVars, writeVars, memoryVars, clawVars, browserVars,
      machineVars, embeddedVars>>

ComponentsInit ==
    /\ part \in {"pending", "ops", "read", "list", "write", "memory", "claw", "browser",
               "upgrade", "embedded"}
    /\ UpgradeInit /\ EmbeddedInit
    /\ Init /\ FilesInit /\ MemoryInit /\ ClawInit /\ BrowserInit
    /\ (part # "read" => ask = CHOOSE a \in Asks : TRUE) /\ (part # "read" => raw = <<>>) /\ ReadInit
    /\ (part # "list" => /\ mtime = [e \in DirEntries |-> 1]
                         /\ listing = [size |-> 1, offset |-> 0]) /\ ListInit
    /\ (part # "write" => file = Absent) /\ WriteInit

(* Everything but the part that runs.                                      *)
OthersRest ==
    /\ UNCHANGED part
    /\ (part # "pending" => UNCHANGED vars)
    /\ (part # "ops" => UNCHANGED fileVars)
    /\ (part # "read" => UNCHANGED readVars)
    /\ (part # "list" => UNCHANGED listVars)
    /\ (part # "write" => UNCHANGED writeVars)
    /\ (part # "memory" => UNCHANGED memoryVars)
    /\ (part # "claw" => UNCHANGED clawVars)
    /\ (part # "browser" => UNCHANGED browserVars)
    /\ (part # "upgrade" => UNCHANGED machineVars)
    /\ (part # "embedded" => UNCHANGED embeddedVars)

(* Parts whose requests run out, by design of the instance.                *)
MayStop == part \in {"pending", "memory", "claw", "browser", "upgrade", "embedded"}

ComponentsNext ==
    /\ OthersRest
    /\ \/ part = "pending" /\ Next /\ PlainAlone
       \/ part = "ops" /\ FilesNext
       \/ part = "read" /\ ReadNext
       \/ part = "list" /\ ListNext
       \/ part = "write" /\ WriteNext
       \/ part = "memory" /\ MemoryNext
       \/ part = "claw" /\ ClawNext
       \/ part = "browser" /\ BrowserNext
       \/ part = "upgrade" /\ UpgradeNext
       \/ part = "embedded" /\ EmbeddedNext
       \/ MayStop /\ UNCHANGED componentVars

ComponentsSpec == ComponentsInit /\ [][ComponentsNext]_componentVars

=============================================================================
