----------------------------- MODULE FileWrite -----------------------------
(* FileWrite and FileEdit of the daemon's file manager (write_ops.rs):     *)
(* requests for one path, served at the same time, each a task of its own  *)
(* that awaits between a stat, a read, an open and a write.  The path has  *)
(* passed the policy and is no symbolic link (FileOps models that).  A     *)
(* file is a sequence of bytes; "n" is LF.  A full write fetched from a    *)
(* presigned URL arrives in chunks.  A read returns the file as it is at   *)
(* one moment: the files edited here fit one read.                         *)
EXTENDS Naturals, Sequences, SequencesExt, FiniteSets, FiniteSetsExt, Functions

CONSTANTS
    WriteRequests,  \* the requests
    WriteMenu,      \* what a request may ask for
    InitFiles,      \* what the path may hold at first; Absent: nothing
    Absent,
    MaxWrite,       \* max_write_bytes
    ByteTop         \* u64::MAX

VARIABLES
    file,       \* what the path holds
    parentDir,  \* whether its parent directory exists
    wreq,       \* request -> what it asks for, once received
    wstage,     \* request -> its next step
    seen,       \* request -> what it last learnt of the file: a size or the content
    out,        \* request -> the bytes it is about to write
    wanswer,     \* request -> its reply
    disturbed   \* request -> another request changed the file since it looked (history)

writeVars == <<file, parentDir, wreq, wstage, seen, out, wanswer, disturbed>>

----------------------------------------------------------------------------
(* The transformations.  A result is <<"ok", bytes>> or <<error>>.         *)
Ok(bytes) == <<"ok", bytes>>

enforce_size_limit(bytes) == IF Len(bytes) > MaxWrite THEN <<"TooLarge">> ELSE Ok(bytes)

Occurs(s, old, i) == i + Len(old) - 1 <= Len(s) /\ SubSeq(s, i, i + Len(old) - 1) = old

(* str::replace of a non-empty string: the leftmost occurrences that do    *)
(* not overlap; the number of them and the result.                         *)
RECURSIVE Replace(_, _, _, _)
Replace(s, old, new, i) ==
    IF i > Len(s) THEN [n |-> 0, s |-> <<>>]
    ELSE IF Occurs(s, old, i)
         THEN LET rest == Replace(s, old, new, i + Len(old))
              IN [n |-> rest.n + 1, s |-> new \o rest.s]
         ELSE LET rest == Replace(s, old, new, i + 1) IN [n |-> rest.n, s |-> <<s[i]>> \o rest.s]

apply_string_replace(s, q) ==
    LET r == Replace(s, q.old, q.new, 1)
    IN IF r.n = 0 THEN <<"NotFound">>
       ELSE IF r.n > 1 /\ ~q.all THEN <<"MultipleMatches">> ELSE Ok(r.s)

(* split_inclusive: every line with its LF.                                *)
Breaks(s) == SetToSortSeq({0, Len(s)} \cup {i \in DOMAIN s : s[i] = "n"}, <)
Lines(s) == [k \in 1..(Len(Breaks(s)) - 1) |-> SubSeq(s, Breaks(s)[k] + 1, Breaks(s)[k + 1])]

EndsWithLF(s) == s # <<>> /\ Last(s) = "n"

Splice(lines, start, end, block) ==
    FlattenSeq(SubSeq(lines, 1, start - 1) \o <<block>> \o SubSeq(lines, end + 1, Len(lines)))

apply_line_range_replace(s, q) ==
    IF q.start > Len(Lines(s)) THEN <<"Unspecified">>
    ELSE LET end == Min({q.end, Len(Lines(s))})
             block == IF EndsWithLF(Lines(s)[end]) /\ ~EndsWithLF(q.new)
                      THEN q.new \o <<"n">> ELSE q.new
         IN Ok(Splice(Lines(s), q.start, end, block))

(* checked_add, then the bounds.                                           *)
apply_byte_range_replace(s, q) ==
    IF q.offset + q.length > ByteTop THEN <<"InvalidPath">>
    ELSE IF q.offset + q.length > Len(s) THEN <<"Unspecified">>
    ELSE Ok(SubSeq(s, 1, q.offset) \o q.new \o SubSeq(s, q.offset + q.length + 1, Len(s)))

Transformed(s, q) ==
    LET t == CASE q.method = "string" -> apply_string_replace(s, q)
               [] q.method = "lines" -> apply_line_range_replace(s, q)
               [] q.method = "bytes" -> apply_byte_range_replace(s, q)
    IN IF t[1] = "ok" THEN enforce_size_limit(t[2]) ELSE t

(* The download: refused by the declared length, else chunk by chunk and   *)
(* given up at the chunk that crosses the cap; -1 declares no length.      *)
fetch_full_write_bytes(q) ==
    LET got == FlattenSeq(q.chunks)
    IN IF q.url = "none" THEN <<"Unspecified">>
       ELSE IF q.url = "file" THEN <<"InvalidPath">>
       ELSE IF q.declared > MaxWrite \/ Len(got) > MaxWrite THEN <<"TooLarge">> ELSE Ok(got)
----------------------------------------------------------------------------
WriteInit ==
    /\ file \in InitFiles
    /\ parentDir = (file # Absent)
    /\ wreq = [r \in WriteRequests |-> [method |-> "none"]]
    /\ wstage = [r \in WriteRequests |-> "new"]
    /\ seen = [r \in WriteRequests |-> <<>>]
    /\ out = [r \in WriteRequests |-> <<>>]
    /\ wanswer = [r \in WriteRequests |-> "none"]
    /\ disturbed = [r \in WriteRequests |-> FALSE]

WGo(r, stage) == wstage' = [wstage EXCEPT ![r] = stage] /\ UNCHANGED wanswer
WReply(r, a) ==
    /\ wstage' = [wstage EXCEPT ![r] = "done"]
    /\ wanswer' = [wanswer EXCEPT ![r] = a]

ToFirst(r, q) ==
    CASE q.method = "full" -> LET b == enforce_size_limit(q.content) IN
             IF b[1] = "ok" THEN WGo(r, "exists") /\ out' = [out EXCEPT ![r] = b[2]]
             ELSE WReply(r, b[1]) /\ UNCHANGED out
      [] q.method = "s3" -> LET b == fetch_full_write_bytes(q) IN
             IF b[1] = "ok" THEN WGo(r, "exists") /\ out' = [out EXCEPT ![r] = b[2]]
             ELSE WReply(r, b[1]) /\ UNCHANGED out
      [] q.method = "lines" /\ (q.start = 0 \/ q.end < q.start) ->
             WReply(r, "Unspecified") /\ UNCHANGED out
      [] q.method = "append" -> WGo(r, "size") /\ out' = [out EXCEPT ![r] = q.content]
      [] OTHER -> WGo(r, "size") /\ UNCHANGED out

(* handle_write: the encoding, the method, create_parents, then the method *)
(* up to its first look at the file.                                       *)
handle_write(r) ==
    /\ wstage[r] = "new"
    /\ \E q \in WriteMenu :
          /\ ~q.edit
          /\ wreq' = [wreq EXCEPT ![r] = q]
          /\ IF ~q.utf8 THEN WReply(r, "Encoding") /\ UNCHANGED <<parentDir, out>>
             ELSE IF q.method = "missing" THEN WReply(r, "Unspecified") /\ UNCHANGED <<parentDir, out>>
             ELSE parentDir' = (parentDir \/ q.parents) /\ ToFirst(r, q)
    /\ UNCHANGED <<file, seen, disturbed>>

(* handle_edit: the file must exist.                                       *)
handle_edit(r) ==
    /\ wstage[r] = "new"
    /\ \E q \in WriteMenu :
          /\ q.edit
          /\ wreq' = [wreq EXCEPT ![r] = q]
          /\ IF ~q.utf8 THEN WReply(r, "Encoding") /\ UNCHANGED out
             ELSE IF file = Absent THEN WReply(r, "NotFound") /\ UNCHANGED out
             ELSE IF q.method = "missing" THEN WReply(r, "Unspecified") /\ UNCHANGED out
             ELSE ToFirst(r, q)
    /\ UNCHANGED <<file, parentDir, seen, disturbed>>

Size == IF file = Absent THEN 0 ELSE Len(file)

(* handle_append: the size it will have; enforce_existing_size_limit.      *)
StatSize(r) ==
    /\ wstage[r] = "size"
    /\ IF Size + Len(out[r]) > MaxWrite THEN WReply(r, "TooLarge")
       ELSE WGo(r, IF wreq[r].method = "append" THEN "open" ELSE "read")
    /\ seen' = [seen EXCEPT ![r] = <<Size>>]
    /\ disturbed' = [disturbed EXCEPT ![r] = FALSE]
    /\ UNCHANGED <<file, parentDir, wreq, out>>

(* An edit reads the file and works out the new content.  A StringReplace  *)
(* edit reports a missing or ambiguous match in the result.                *)
ReadExisting(r) ==
    /\ wstage[r] = "read"
    /\ IF file = Absent THEN WReply(r, "NotFound") /\ UNCHANGED <<seen, out, disturbed>>
       ELSE LET t == Transformed(file, wreq[r]) IN
            /\ IF t[1] = "ok" THEN WGo(r, "open") /\ out' = [out EXCEPT ![r] = t[2]]
               ELSE WReply(r, IF wreq[r].edit /\ t[1] \in {"NotFound", "MultipleMatches"}
                             THEN "match_error" ELSE t[1]) /\ UNCHANGED out
            /\ seen' = [seen EXCEPT ![r] = file]
            /\ disturbed' = [disturbed EXCEPT ![r] = FALSE]
    /\ UNCHANGED <<file, parentDir, wreq>>

(* handle_full_write: try_exists, for the action it reports.               *)
TryExists(r) ==
    /\ wstage[r] = "exists"
    /\ WGo(r, "open")
    /\ seen' = [seen EXCEPT ![r] = <<file # Absent>>]
    /\ disturbed' = [disturbed EXCEPT ![r] = FALSE]
    /\ UNCHANGED <<file, parentDir, wreq, out>>

Disturb(r) == disturbed' = [x \in WriteRequests |-> disturbed[x] \/ (x # r /\ wstage[x] # "done")]

(* Mutant: the file is opened without truncation.                          *)
MutOpenFile(r) ==
    /\ wstage[r] = "open"
    /\ IF ~parentDir THEN WReply(r, "NotFound") /\ UNCHANGED <<file, disturbed>>
       ELSE /\ WGo(r, "write")
            /\ file' = IF file # Absent THEN file ELSE <<>>
            /\ IF file' = file THEN UNCHANGED disturbed ELSE Disturb(r)
    /\ UNCHANGED <<parentDir, wreq, seen, out>>

(* tokio::fs::write opens with truncation, append without; both create.    *)
OpenFile(r) ==
    /\ wstage[r] = "open"
    /\ IF ~parentDir THEN WReply(r, "NotFound") /\ UNCHANGED <<file, disturbed>>
       ELSE /\ WGo(r, "write")
            /\ file' = IF wreq[r].method = "append" /\ file # Absent THEN file ELSE <<>>
            /\ IF file' = file THEN UNCHANGED disturbed ELSE Disturb(r)
    /\ UNCHANGED <<parentDir, wreq, seen, out>>

(* An append goes to the end; write_all goes to the start of the file, over *)
(* what another writer may have put there since it was truncated.          *)
MutWriteAll(r) ==
    /\ wstage[r] = "write"
    /\ file' = IF wreq[r].method = "append" /\ Len(file) >= seen[r][1]
               THEN SubSeq(file, 1, seen[r][1]) \o out[r]
                        \o SubSeq(file, seen[r][1] + Len(out[r]) + 1, Len(file))
               ELSE out[r] \o SubSeq(file, Len(out[r]) + 1, Len(file))
    /\ WReply(r, "ok")
    /\ Disturb(r)
    /\ UNCHANGED <<parentDir, wreq, seen, out>>

WriteAll(r) ==
    /\ wstage[r] = "write"
    /\ file' = IF wreq[r].method = "append" THEN file \o out[r]
               ELSE out[r] \o SubSeq(file, Len(out[r]) + 1, Len(file))
    /\ WReply(r, "ok")
    /\ Disturb(r)
    /\ UNCHANGED <<parentDir, wreq, seen, out>>

(* The disk is full after part of the content.                             *)
WriteFails(r) ==
    /\ wstage[r] = "write" /\ out[r] # <<>>
    /\ LET part == SubSeq(out[r], 1, Len(out[r]) \div 2) IN
          file' = IF wreq[r].method = "append" THEN file \o part
                  ELSE part \o SubSeq(file, Len(part) + 1, Len(file))
    /\ WReply(r, "Io")
    /\ Disturb(r)
    /\ UNCHANGED <<parentDir, wreq, seen, out>>

WritesDone == (\A r \in WriteRequests : wstage[r] = "done") /\ UNCHANGED writeVars

WriteNext ==
    \/ \E r \in WriteRequests :
          \/ handle_write(r) \/ handle_edit(r) \/ StatSize(r) \/ ReadExisting(r)
          \/ TryExists(r) \/ OpenFile(r) \/ WriteAll(r) \/ WriteFails(r)
    \/ WritesDone

WriteSpec == WriteInit /\ [][WriteNext]_writeVars
----------------------------------------------------------------------------
(* The cap on a file's size holds unless appends race: a file over the cap *)
(* took an append whose size check another request's write had overtaken.  *)
SizeCapped ==
    file # Absent /\ Len(file) > MaxWrite =>
        \E r \in WriteRequests : wreq[r].method = "append" /\ disturbed[r]
                                   /\ wstage[r] \in {"write", "done"}

(* Appends that answered ok are all in the file, whole, when no request    *)
(* truncates: the file is opened for appending, not written at the size    *)
(* the check saw.                                                          *)
AppendsSurvive ==
    (\A r \in WriteRequests : wreq[r].method \in {"none", "append"} /\ wanswer[r] # "Io") =>
        LET done == {r \in WriteRequests : wanswer[r] = "ok"} IN
        done # {} =>
            \E base \in InitFiles, order \in SetToSeqs(done) :
                file = FlattenSeq((IF base = Absent THEN <<>> ELSE <<base>>)
                                      \o [i \in DOMAIN order |-> out[order[i]]])

(* A line edit changes nothing outside its range: the result is the lines  *)
(* before it, whole lines in its place, and the lines after it.            *)
LineEditKeepsRest ==
    \A r \in WriteRequests :
        wstage[r] \in {"open", "write", "done"} /\ wreq[r].method = "lines"
                /\ wanswer[r] \in {"none", "ok"} =>
            LET old == Lines(seen[r]) new == Lines(out[r])
                before == SubSeq(old, 1, wreq[r].start - 1)
                after == SubSeq(old, wreq[r].end + 1, Len(old))
            IN IsPrefix(before, new) /\ IsSuffix(after, new)

(* An edit that no other request disturbed between its read and the end of *)
(* its write leaves exactly its result; one refused before its open leaves *)
(* the file alone (action property).                                       *)
EditsExact ==
    [][\A r \in WriteRequests :
          wanswer[r] = "none" /\ wanswer'[r] # "none" =>
              IF wstage[r] # "write" THEN file' = file
              ELSE wanswer'[r] = "ok" /\ ~disturbed[r] /\ wreq[r].method # "append"
                       => file' = out[r]]_writeVars

(* Writes and edits change what they were asked to and nothing else, but   *)
(* for the races the conjuncts name (handle_write, handle_edit).           *)
WritesFaithful ==
    [](SizeCapped /\ AppendsSurvive /\ LineEditKeepsRest) /\ EditsExact

============================================================================
