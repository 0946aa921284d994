----------------------------- MODULE LossyPipe ------------------------------
(***************************************************************************)
(* What a path of bounded channels, buffers and filters promises: packets  *)
(* come out in the order they went in, some of them not at all.  A lane is *)
(* the path of one flow; lanes may move together.  Which packets go in is  *)
(* left open: a path that took one in twice would still be a pipe.         *)
(***************************************************************************)
EXTENDS Naturals, Sequences

CONSTANT Lane

VARIABLES
    pipe,   \* pipe[l]: the packets inside, the one furthest ahead first
    up      \* up[l]: whoever holds the pipe is alive

pipeVars == <<pipe, up>>

\* The sequence s without its i-th element.
Without(s, i) == SubSeq(s, 1, i - 1) \o SubSeq(s, i + 1, Len(s))

PipeInit == pipe = [l \in Lane |-> <<>>] /\ up = [l \in Lane |-> FALSE]

\* A packet goes in.
Put(s, t) == Len(t) = Len(s) + 1 /\ s = SubSeq(t, 1, Len(s))

\* A packet comes out (i = 1) or is lost on the way.
TakeOrLose(s, t) == \E i \in DOMAIN s : t = Without(s, i)

\* Only with its holder does everything inside go at once.
Clear(l) == up[l] /\ ~up'[l] /\ pipe'[l] = <<>>

PipeNext ==
    \A l \in Lane : LET s == pipe[l]
                        t == pipe'[l]
                    IN s = t \/ Put(s, t) \/ TakeOrLose(s, t) \/ Clear(l)

PipeSpec == PipeInit /\ [][PipeNext]_pipeVars
=============================================================================
