----------------------------- MODULE FileList -----------------------------
(* handle_list of the daemon's file manager (fs_ops.rs): a caller pages    *)
(* through a directory that does not change meanwhile.  DirEntries are     *)
(* numbers in the order of their names; read_dir returns them in any       *)
(* order.  The bounded heap is the set of entries it retains.              *)
EXTENDS Naturals, Sequences, SequencesExt, FiniteSets, FiniteSetsExt

CONSTANTS
    DirEntries,     \* the directory's entries
    Hidden,         \* those whose name starts with a dot
    Times,          \* modification times
    PageSizes,      \* max_results a caller may ask for
    Margin,         \* LIST_HEAP_SAFETY_MARGIN
    RetainCap       \* LIST_HEAP_RETAIN_CAP

VARIABLES
    mtime,      \* entry -> its modification time
    listing,    \* [size, offset]: the request being served
    unread,     \* entries read_dir has still to return
    heap,       \* entries retained so far
    total,      \* entries counted so far
    listed,     \* the pages returned
    listReply   \* "none", "end" after the last page, or "InvalidPath"

listVars == <<mtime, listing, unread, heap, total, listed, listReply>>

(* The key the heap evicts by, and the order the page is sorted in.        *)
Older(a, b) == mtime[a] < mtime[b] \/ (mtime[a] = mtime[b] /\ a < b)
ListedBefore(a, b) == mtime[a] > mtime[b] \/ (mtime[a] = mtime[b] /\ a < b)

Oldest(set) == CHOOSE e \in set : \A x \in set \ {e} : Older(e, x)

ListInit ==
    /\ mtime \in [DirEntries -> Times]
    /\ listing \in [size : PageSizes, offset : {0}]
    /\ unread = DirEntries
    /\ heap = {}
    /\ total = 0
    /\ listed = <<>>
    /\ listReply = "none"

OverWindow == listing.offset + listing.size > RetainCap

MutRetain == Min({listing.offset + listing.size, RetainCap})
Retain == Min({listing.offset + listing.size + Margin, RetainCap})

(* A request past the window of the heap is refused.                       *)
RefuseWindow ==
    /\ listReply = "none" /\ OverWindow
    /\ listReply' = "InvalidPath"
    /\ UNCHANGED <<mtime, listing, unread, heap, total, listed>>

(* One entry of read_dir: hidden ones are skipped, the others counted and  *)
(* kept if they fit or are newer than the oldest kept.                     *)
ListEntry(e) ==
    /\ listReply = "none" /\ ~OverWindow
    /\ e \in unread
    /\ unread' = unread \ {e}
    /\ IF e \in Hidden THEN UNCHANGED <<heap, total>>
       ELSE /\ total' = total + 1
            /\ heap' = IF Cardinality(heap) < Retain THEN heap \cup {e}
                       ELSE IF heap # {} /\ Older(Oldest(heap), e)
                            THEN (heap \ {Oldest(heap)}) \cup {e} ELSE heap
    /\ UNCHANGED <<mtime, listing, listed, listReply>>

(* The end of read_dir: the kept entries are sorted and cut to the page;   *)
(* while has_more the caller asks for the next one.                        *)
ListPage ==
    /\ listReply = "none" /\ ~OverWindow
    /\ unread = {}
    /\ LET sorted == SetToSortSeq(heap, ListedBefore)
           end == Min({listing.offset + listing.size, Len(sorted)})
           hasMore == listing.offset + listing.size < total
       IN /\ listed' = Append(listed, SubSeq(sorted, listing.offset + 1, end))
          /\ IF hasMore
             THEN /\ listing' = [listing EXCEPT !.offset = @ + listing.size]
                  /\ unread' = DirEntries /\ heap' = {} /\ total' = 0
                  /\ UNCHANGED listReply
             ELSE /\ listReply' = "end"
                  /\ UNCHANGED <<listing, unread, heap, total>>
    /\ UNCHANGED mtime

ListDone == listReply # "none" /\ UNCHANGED listVars

ListNext == RefuseWindow \/ ListPage \/ ListDone \/ \E e \in DirEntries : ListEntry(e)

ListSpec == ListInit /\ [][ListNext]_listVars
----------------------------------------------------------------------------
Visible == DirEntries \ Hidden
Ties(t) == {e \in Visible : mtime[e] = t}

(* The pages are the visible entries, newest first and by name among those *)
(* of one time, each once, when the directory fits the window and no more  *)
(* entries share a time than the margin makes room for: the heap keeps the *)
(* highest names among equal times, the page shows the lowest first.       *)
ListComplete ==
    /\ Cardinality(Visible) <= RetainCap
    /\ \A t \in Times : Cardinality(Ties(t)) <= Margin + 1
    =>
        IsPrefix(FlattenSeq(listed), SetToSortSeq(Visible, ListedBefore))
            /\ (listReply = "end" => Len(FlattenSeq(listed)) = Cardinality(Visible))

(* No entry is on two pages, whatever the times: the pages of one          *)
(* directory do not overlap.                                               *)
ListPagesDisjoint == IsInjective(FlattenSeq(listed))
============================================================================
