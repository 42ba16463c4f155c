------------------------------- MODULE Paging -------------------------------
(***************************************************************************)
(* Pure: which messages are on a page.  IMAP counts a page from the end of *)
(* the mailbox in u32 sequence numbers, JMAP and Graph ask for a position  *)
(* and a limit, the local stores cut a list.                               *)
(***************************************************************************)
EXTENDS Integers, Sequences, SequencesExt

CONSTANTS
    NoSize,      \* the absent page size
    ServerPage,  \* what JMAP, Gmail and Graph answer when asked for no size
    MaxU32       \* the largest u32

\* Items start + 1 to start + count of s, as far as it goes.
Slice(s, start, count) == SubSeq(s, start + 1, Min({start + count, Len(s)}))

\* saturating_mul.
Saturate(n) == Min({n, MaxU32})

\* Mutant: the window stops one short of its skip.
ComputeWindowShort(exists, page, size) ==
    LET skip == Saturate((page - 1) * size) + 1
        end == exists - skip
    IN IF exists = 0 \/ skip >= exists THEN <<>>
       ELSE <<Max({end - (size - 1), 1}), end>>

\* Mutant: the window is not cut at the first message.
ComputeWindowUncut(exists, page, size) ==
    LET skip == Saturate((page - 1) * size)
    IN IF exists = 0 \/ skip >= exists THEN <<>>
       ELSE <<exists - skip - (size - 1), exists - skip>>

\* compute_window: the sequence numbers of a page, counted from the end.
ComputeWindow(exists, page, size) ==
    LET skip == Saturate((page - 1) * size)
        end == exists - skip
    IN IF exists = 0 \/ skip >= exists THEN <<>>
       ELSE <<Max({end - (size - 1), 1}), end>>

\* paginate_uids, paginate: no size gives the whole, on every page.
Paginate(s, page, size) ==
    IF size = NoSize THEN s ELSE Slice(s, (page - 1) * size, size)

\* Mutant: the first page starts one page in.
PositionLimitOnePage(page, size) ==
    IF size = NoSize THEN <<0, ServerPage>> ELSE <<page * size, size>>

\* compute_position_limit; a request without a limit gets the server's.
PositionLimit(page, size) ==
    IF size = NoSize THEN <<0, ServerPage>> ELSE <<(page - 1) * size, size>>
=============================================================================
