----------------------------- MODULE FileRead -----------------------------
(* The reading half of the daemon's file manager (text_read.rs,            *)
(* binary_read.rs, pdf_read.rs): a caller pages through one file, asking   *)
(* for the next page at the byte where the last one ended.  A file is a    *)
(* sequence of bytes of five kinds: "x" any one-byte character, "L" and    *)
(* "c" the lead and the continuation byte of a two-byte one, "r" CR and    *)
(* "n" LF.  Positions are 0-based byte offsets, as in the code.  Encoders  *)
(* and the PDF parser are external: an encoder pass may give any size.     *)
EXTENDS Naturals, Sequences, SequencesExt, FiniteSets, FiniteSetsExt

CONSTANTS
    Contents,       \* the files that may be read
    TextLimits,     \* [lines, bytes, width, target]: the limits of a text read
    BinaryLimits,   \* [length, max]: byte_length and the clamped max_bytes
    Budgets,        \* max_bytes of an image read; NoBudget stands for None
    NoBudget,
    Qualities,      \* requested qualities
    ImageSizes,     \* sizes an encoder pass may give
    PageCounts,     \* pages a PDF may have
    PdfLimits,      \* [mode, dflt, max]: a mode and its page limits
    MaxRead,        \* max_read_bytes of the policy
    NoTarget

VARIABLES
    raw,        \* the file
    ask,        \* what the caller asks for
    cursor,     \* where its next page starts
    pages,      \* the pages it got
    image,      \* the image encoder: quality, size of the last pass, passes
    reply       \* "none" while the caller goes on, then how it ended

readVars == <<raw, ask, cursor, pages, image, reply>>

Byte(b, i) == b[i + 1]

(* The pieces of a file that start a line; none in an empty file.          *)
compute_line_offsets_raw(b) ==
    IF b = <<>> THEN <<>>
    ELSE SetToSortSeq({0} \cup {i \in 1..(Len(b) - 1) : Byte(b, i - 1) = "n"}, <)

MutLineIndex(offsets, byte) == Cardinality({k \in DOMAIN offsets : offsets[k] < byte})

(* The index (from 0) of the line a byte lies in.                          *)
line_index_for_byte(offsets, byte) ==
    IF offsets = <<>> THEN 0 ELSE Cardinality({k \in DOMAIN offsets : offsets[k] <= byte}) - 1

(* Where a line is cut for display: at the width, backed up to the start   *)
(* of a character.                                                         *)
truncate_line(b, from, to, width) ==
    IF width = 0 \/ to - from <= width THEN to
    ELSE Max({from} \cup {i \in from..(from + width) : Byte(b, i) # "c"})

(* A whole line loses its LF, or CRLF, on display.                         *)
Displayed(b, from, to) ==
    IF to = from \/ Byte(b, to - 1) # "n" THEN to
    ELSE IF to - 1 > from /\ Byte(b, to - 2) = "r" THEN to - 2 ELSE to - 1

(* The lines from index k on, given what the page holds already.           *)
RECURSIVE ReadLines(_, _, _, _, _)
ReadLines(b, offsets, k, lim, page) ==
    IF k >= Len(offsets)
    THEN [page EXCEPT !.stop = IF Len(page.lines) >= lim.lines THEN "MaxLines" ELSE "FileEnd"]
    ELSE IF page.to - page.from >= lim.bytes THEN [page EXCEPT !.stop = "MaxBytes"]
    ELSE IF Len(page.lines) >= lim.lines THEN [page EXCEPT !.stop = "MaxLines"]
    ELSE LET lineEnd == IF k + 1 < Len(offsets) THEN offsets[k + 2] ELSE Len(b)
             start == page.to
             bytesCut == Min({lineEnd, start + lim.bytes - (page.to - page.from)})
             targetCut == IF lim.target = NoTarget THEN lineEnd
                          ELSE Min({lineEnd, Max({start, Min({lim.target, Len(b)})})})
             end == Min({bytesCut, targetCut})
             whole == bytesCut = lineEnd /\ targetCut = lineEnd
             shown == IF whole THEN Displayed(b, start, end) ELSE end
             line == [number |-> k + 1, from |-> start, shown |-> shown,
                      cut |-> truncate_line(b, start, shown, lim.width)]
             next == [page EXCEPT !.lines = Append(@, line), !.to = end]
         IN IF end = start /\ targetCut < lineEnd THEN [page EXCEPT !.stop = "TargetEnd"]
            ELSE IF targetCut < lineEnd THEN [next EXCEPT !.stop = "TargetEnd"]
            ELSE IF bytesCut < lineEnd THEN [next EXCEPT !.stop = "MaxBytes"]
            ELSE ReadLines(b, offsets, k + 1, lim, next)

(* handle_read_text with a start byte.                                     *)
handle_read_text(b, start, lim) ==
    LET offsets == compute_line_offsets_raw(b)
    IN ReadLines(b, offsets, line_index_for_byte(offsets, start), lim,
                 [from |-> start, to |-> start, lines |-> <<>>, stop |-> "none"])

(* handle_read_binary: byte_length 0 asks for all there is.                *)
handle_read_binary(b, start, lim) ==
    LET available == Len(b) - start
        requested == IF lim.length = 0 THEN available ELSE Min({lim.length, available})
        length == IF start >= Len(b) THEN 0 ELSE Min({requested, lim.max})
    IN [from |-> start, to |-> start + length, lines |-> <<>>, stop |-> "none"]

(* resolve_range: the pages a request names, or the first few; a sequence  *)
(* of one string is an error.                                              *)
resolve_range(range, total, dflt, max) ==
    LET r == IF range = <<>> THEN <<1, Min({total, dflt})>> ELSE range
    IN IF \/ total = 0 \/ r[1] = 0 \/ r[2] < r[1] \/ r[2] > total THEN <<"InvalidPath">>
       ELSE IF r[2] - r[1] + 1 > max THEN <<"TooLarge">> ELSE r

(* read_pdf_blocking: the metadata and raw modes take no range, the raw    *)
(* mode (dflt = 0) has a page limit.                                       *)
read_pdf_blocking(lim, total, range) ==
    IF lim.dflt = 0
    THEN IF range # <<>> THEN <<"InvalidPath">> ELSE IF total > lim.max THEN <<"TooLarge">> ELSE <<>>
    ELSE resolve_range(range, total, lim.dflt, lim.max)

----------------------------------------------------------------------------
PdfRanges == {<<>>} \cup ((0..(Max(PageCounts) + 1)) \X (0..(Max(PageCounts) + 1)))

Asks ==
    [kind : {"text"}, lim : TextLimits] \cup [kind : {"binary"}, lim : BinaryLimits]
        \cup [kind : {"image"}, budget : Budgets \cup {NoBudget}, quality : Qualities,
                lossy : BOOLEAN]
        \cup [kind : {"pdf"}, lim : PdfLimits, total : PageCounts, range : PdfRanges]

ReadInit ==
    /\ ask \in Asks
    /\ raw \in IF ask.kind \in {"text", "binary"} THEN Contents ELSE {<<>>}
    /\ cursor = 0
    /\ pages = <<>>
    /\ image = [q |-> 0, size |-> 0, passes |-> 0]
    /\ reply = "none"

ReachedTarget(byte) ==
    ask.kind = "text" /\ ask.lim.target # NoTarget /\ byte >= ask.lim.target

(* The caller asks for pages until one ends at the end of the file or at   *)
(* its target.  A text file over the read budget is refused unread.        *)
NextPage ==
    /\ reply = "none"
    /\ ask.kind \in {"text", "binary"}
    /\ IF ask.kind = "text" /\ Len(raw) > MaxRead
       THEN reply' = "TooLarge" /\ UNCHANGED <<cursor, pages>>
       ELSE LET page == IF ask.kind = "text" THEN handle_read_text(raw, cursor, ask.lim)
                        ELSE handle_read_binary(raw, cursor, ask.lim)
            IN /\ pages' = Append(pages, page)
               /\ cursor' = page.to
               /\ reply' = IF page.to = Len(raw) \/ ReachedTarget(page.to) THEN "end" ELSE "none"
    /\ UNCHANGED <<raw, ask, image>>

(* encode_image, a pass at a time: the first at the requested quality,     *)
(* then, for the lossy formats, ten points lower each until the result     *)
(* fits or the floor is reached.                                           *)
EncodePass ==
    /\ reply = "none" /\ ask.kind = "image"
    /\ image.passes > 0 => image.q > 10
    /\ \E s \in ImageSizes :
          /\ image' = [q |-> IF image.passes = 0 THEN ask.quality ELSE image.q - 10,
                       size |-> s, passes |-> image.passes + 1]
          /\ reply' = IF ask.budget = NoBudget \/ s <= ask.budget THEN "end"
                      ELSE IF ask.lossy /\ image'.q > 10 THEN "none" ELSE "TooLarge"
    /\ UNCHANGED <<raw, ask, cursor, pages>>

ReadPdf ==
    /\ reply = "none" /\ ask.kind = "pdf"
    /\ LET r == read_pdf_blocking(ask.lim, ask.total, ask.range) IN
          IF Len(r) = 1 THEN reply' = r[1] /\ UNCHANGED pages
          ELSE reply' = "end" /\ pages' = <<r>>
    /\ UNCHANGED <<raw, ask, cursor, image>>

ReadDone == reply # "none" /\ UNCHANGED readVars

ReadNext == NextPage \/ EncodePass \/ ReadPdf \/ ReadDone

ReadSpec == ReadInit /\ [][ReadNext]_readVars
----------------------------------------------------------------------------
Paged == ask.kind \in {"text", "binary"}

(* Paging by the reported end position reads every byte once: each page    *)
(* starts where the last one ended, moves on unless the file or the target *)
(* is reached, and the caller ends at the end of the file or at its        *)
(* target (end_pos and remaining_bytes are in raw bytes).                  *)
PagesJoin ==
    Paged =>
        /\ \A i \in DOMAIN pages :
              /\ pages[i].from = IF i = 1 THEN 0 ELSE pages[i - 1].to
              /\ pages[i].to = pages[i].from =>
                    i = Len(pages) /\ (raw = <<>> \/ ReachedTarget(pages[i].to))
        /\ ask.kind = "text" /\ ask.lim.target # NoTarget /\ reply = "end" =>
              cursor = Min({ask.lim.target, Len(raw)})

(* What a text page shows is the file: on every line the number is one     *)
(* more than the LFs before it, only a line break is left out between one  *)
(* line shown and the next, no LF is shown, and a width limit never splits *)
(* a character that the page holds.                                        *)
LinesShowTheFile ==
    ask.kind = "text" => \A i \in DOMAIN pages :
        LET p == pages[i] IN
        \A j \in DOMAIN p.lines :
            LET l == p.lines[j]
                end == IF j < Len(p.lines) THEN p.lines[j + 1].from ELSE p.to
            IN /\ l.number = 1 + Cardinality({k \in 0..(l.from - 1) : Byte(raw, k) = "n"})
               /\ SubSeq(raw, l.shown + 1, end) \in {<<>>, <<"n">>, <<"r", "n">>}
               /\ \A k \in l.from..(l.shown - 1) : Byte(raw, k) # "n"
               /\ l.cut < l.shown /\ l.cut > l.from => Byte(raw, l.cut) # "c"

(* An image reply fits the caller's budget, and is given up as too large   *)
(* only after the lowest quality was tried; every pass has a quality that  *)
(* the encoders accept.                                                    *)
ImageFits ==
    ask.kind = "image" =>
        /\ reply = "end" /\ ask.budget # NoBudget => image.size <= ask.budget
        /\ reply = "TooLarge" => image.q <= 10 \/ ~ask.lossy
        /\ image.passes > 0 => image.q \in 1..100

(* The pages a PDF read returns exist and are no more than its mode        *)
(* allows, and a range that is right is never refused.                     *)
PdfRangeSound ==
    ask.kind = "pdf" /\ ask.lim.dflt > 0 =>
        /\ reply = "end" => /\ 1 <= pages[1][1] /\ pages[1][2] <= ask.total
                            /\ pages[1][2] - pages[1][1] < ask.lim.max
        /\ ask.total > 0 /\ ask.range = <<>> => reply \in {"none", "end"}

(* What a reader is shown is the file, whole and within its limits         *)
(* (handle_read_text, handle_read_binary, encode_image, resolve_range).    *)
ReadsFaithful == PagesJoin /\ LinesShowTheFile /\ ImageFits /\ PdfRangeSound

============================================================================
