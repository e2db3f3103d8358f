---- MODULE LineEditing ----
(***************************************************************************)
(* The text of the line being edited and the commands that change it:      *)
(* src/lib/readline/text.c and undo.c.  The editor is one record e.  These *)
(* modules have no variables: the commands are operators from an editor to *)
(* an editor, and Editor.tla makes an action of each.                      *)
(*   line point mark   the text, a sequence of characters, and two offsets *)
(*   undo node         rl_undo_list, an index of node (0: NULL), and the   *)
(*                     allocated entries, so that two owners of one list   *)
(*                     (the line and a history entry) share its changes    *)
(*   level             _rl_undo_group_level                                *)
(*   hist pos saved    the_history as <<line, data>> records,              *)
(*                     history_offset, _rl_saved_line_for_history          *)
(* A character stands for a byte, or for a multibyte character of a UTF-8  *)
(* locale: a command never stops inside one.                               *)
(***************************************************************************)
EXTENDS Integers, Sequences, FiniteSets, SequencesExt

CONSTANT MergeLimit          \* longest run of insertions one undo takes back
ASSUME MergeLimitAssumption == MergeLimit \in Nat \ {0}

Capital == [a |-> "A", b |-> "B", c |-> "C", d |-> "D", e |-> "E", x |-> "X"]
Small == [k \in {Capital[c] : c \in DOMAIN Capital} |->
            CHOOSE c \in DOMAIN Capital : Capital[c] = k]
Digits == {"0", "1", "2", "3", "4", "5", "6", "7", "8", "9"}
Alphabetic(c) == c \in DOMAIN Capital \cup DOMAIN Small \cup Digits
White(c) == c \in {" ", "TAB"}

\* The program's data, and the ends of its ranges.
NoLine == [line |-> <<>>, data |-> -1]             \* a NULL HIST_ENTRY
Freed == [what |-> "freed", next |-> 0]
Cut(s, from, to) == SubSeq(s, from + 1, to)        \* [from, to)
End(e) == Len(e.line)
At(e, p) == [e EXCEPT !.point = p]
Least(x, y) == IF x < y THEN x ELSE y
Most(x, y) == IF x < y THEN y ELSE x
Clipped(e, x) == Most(0, Least(x, End(e)))
_rl_fix_point(e) == [e EXCEPT !.point = Clipped(e, @), !.mark = Clipped(e, @)]
Times(n, Op(_), e) == FoldLeft(LAMBDA a, i : Op(a), e, [i \in 1..n |-> i])
\* The first position from p on, and the last up to p, where Test holds of
\* the character after it, and before it.
Ahead(e, p, Test(_)) ==
    CHOOSE q \in p..End(e) :
        /\ q = End(e) \/ Test(e.line[q + 1])
        /\ \A i \in p..(q - 1) : ~Test(e.line[i + 1])
Back(e, p, Test(_)) ==
    CHOOSE q \in 0..p :
        /\ q = 0 \/ Test(e.line[q])
        /\ \A i \in (q + 1)..p : ~Test(e.line[i])

----
(* Undoing. *)

rl_add_undo(e, what, start, end, text) ==
    [e EXCEPT !.node = Append(@, [what |-> what, start |-> start, end |-> end,
                                  text |-> text, next |-> e.undo]),
              !.undo = Len(e.node) + 1]

rl_begin_undo_group(e) ==
    [rl_add_undo(e, "begin", 0, 0, <<>>) EXCEPT !.level = @ + 1]
rl_end_undo_group(e) ==
    [rl_add_undo(e, "end", 0, 0, <<>>) EXCEPT !.level = @ - 1]

RECURSIVE Chain(_, _)                              \* the entries of a list
Chain(e, a) == IF a \in {0, -1} THEN {} ELSE {a} \cup Chain(e, e.node[a].next)

_rl_free_undo_list(e, a) ==
    [e EXCEPT !.node = FoldSet(LAMBDA i, node : [node EXCEPT ![i] = Freed], @, Chain(e, a))]

replace_history_entry(e, which, line, data) ==
    [e EXCEPT !.hist[which + 1] = [line |-> line, data |-> data]]
_hs_replace_history_data(e, old, new) ==
    LET shared == {i \in DOMAIN e.hist : e.hist[i].data = old}
    IN [e EXCEPT !.hist = FoldSet(LAMBDA i, hist : [hist EXCEPT ![i].data = new], @, shared)]

rl_free_undo_list(e) ==
    LET freed == [_rl_free_undo_list(e, e.undo) EXCEPT !.undo = 0,
                     !.saved.data = IF @ = e.undo THEN 0 ELSE @]
    IN _hs_replace_history_data(freed, e.undo, 0)

\* rl_insert_text and rl_delete_text while _rl_doing_an_undo is set.
Inserted(e, s) ==
    [e EXCEPT !.line = Cut(@, 0, e.point) \o s \o Cut(@, e.point, End(e)),
              !.point = @ + Len(s)]
Deleted(e, from, to) ==
    LET cut == [e EXCEPT !.line = Cut(@, 0, from) \o Cut(@, to, End(e))]
    IN [cut EXCEPT !.mark = Clipped(cut, @)]
Lower(e, from, to) == Most(0, Least(Least(from, to), End(e)))
Upper(e, from, to) == Most(0, Least(Most(from, to), End(e)))

rl_insert_text(e, s) ==
    LET merged == /\ Len(s) = 1
                  /\ e.undo # 0
                  /\ e.node[e.undo].what = "insert"
                  /\ e.node[e.undo].end = e.point
                  /\ e.node[e.undo].end - e.node[e.undo].start < MergeLimit
    IN IF s = <<>> THEN e
       ELSE IF merged THEN [Inserted(e, s) EXCEPT !.node[e.undo].end = @ + 1]
       ELSE rl_add_undo(Inserted(e, s), "insert", e.point, e.point + Len(s), <<>>)

rl_delete_text(e, from, to) ==
    LET low == Lower(e, from, to)  high == Upper(e, from, to)
    IN rl_add_undo(Deleted(e, low, high), "delete", low, high, Cut(e.line, low, high))

_rl_replace_text(e, s, start, end) ==
    LET begun == rl_begin_undo_group(e)
        cut == IF start <= end THEN rl_delete_text(begun, start, end + 1) ELSE begun
    IN rl_end_undo_group(rl_insert_text(At(cut, start), s))

rl_replace_line(e, s, clear_undo) ==
    LET put == [e EXCEPT !.line = s]
    IN _rl_fix_point(IF clear_undo THEN rl_free_undo_list(put) ELSE put)

\* A bug to check the properties against: the two entries in the other order.
rl_modifying_swapped(e, start, end) ==
    IF start = end THEN e
    ELSE rl_end_undo_group(
           rl_add_undo(rl_add_undo(rl_begin_undo_group(e), "insert", start, end, <<>>),
                       "delete", start, end, Cut(e.line, start, end)))
rl_modifying(e, start, end) ==
    IF start = end THEN e
    ELSE rl_end_undo_group(
           rl_add_undo(rl_add_undo(rl_begin_undo_group(e), "delete",
                                   start, end, Cut(e.line, start, end)),
                       "insert", start, end, <<>>))

\* The list is popped where the line, the history and the saved line have it.
\* A bug to check the properties against: only in the line.
Popped_alone(e, top, rest) == [e EXCEPT !.undo = rest, !.node[top] = Freed]
Popped(e, top, rest) ==
    LET within == e.saved.data # top /\ top \in Chain(e, e.saved.data)
        owner == CHOOSE a \in Chain(e, e.saved.data) : e.node[a].next = top
        current == e.pos + 1 \in DOMAIN e.hist /\ e.hist[e.pos + 1].data = top
        kept == IF current THEN [e EXCEPT !.hist[e.pos + 1].line = e.line] ELSE e
        relinked == [kept EXCEPT
                       !.saved.data = IF @ = top THEN rest ELSE @,
                       !.node = IF within THEN [@ EXCEPT ![owner].next = rest] ELSE @,
                       !.undo = rest]
    IN [_hs_replace_history_data(relinked, top, rest) EXCEPT !.node[top] = Freed]

Entry(e) == e.node[e.undo]
Taken(e) ==                                        \* the last change
    LET u == Entry(e)
        back == CASE u.what = "delete" -> Inserted(_rl_fix_point(At(e, u.start)), u.text)
                  [] u.what = "insert" ->
                       _rl_fix_point(At(Deleted(e, Lower(e, u.start, u.end),
                                                Upper(e, u.start, u.end)), u.start))
                  [] OTHER -> e
    IN Popped(back, e.undo, u.next)
RECURSIVE Undone(_, _)                             \* rl_do_undo's loop
Undone(e, waiting) ==
    IF e.undo = 0 THEN e
    ELSE LET left == CASE Entry(e).what = "end" -> waiting + 1
                       [] Entry(e).what = "begin" -> Most(waiting - 1, 0)
                       [] OTHER -> waiting
         IN IF left > 0 THEN Undone(Taken(e), left) ELSE Taken(e)
rl_do_undo(e) == Undone(e, 0)

rl_undo_command(e, count) == Times(Least(count, Cardinality(Chain(e, e.undo))), rl_do_undo, e)

RECURSIVE AllUndone(_)
AllUndone(e) == IF e.undo = 0 THEN e ELSE AllUndone(rl_do_undo(e))
rl_revert_line(e) ==
    IF e.undo = 0 THEN e
    ELSE IF e.vi THEN [AllUndone(e) EXCEPT !.point = 0, !.mark = 0]
    ELSE AllUndone(e)
====
