------------------------------ MODULE RunChild ------------------------------
(***************************************************************************)
(* A command run in the root, _klpm_run_chroot() of lib/libkuzpkg/util.c:  *)
(* the parent feeds the child's standard input from a callback and cuts    *)
(* its output into lines, from one poll() loop over two sockets; the child *)
(* reads and writes as its program says and blocks as a process does.      *)
(* A byte is a character or "nl".                                          *)
(***************************************************************************)
EXTENDS Strings

\* Capacity of a socket; sizeof(obuf), PIPE_BUF; sizeof(ibuf), LINE_MAX.
CONSTANTS Capacity, OSize, ISize
ASSUME SizesAssumption == {Capacity, OSize, ISize} \subseteq Nat /\ Capacity > 0 /\ OSize > 0 /\ ISize > 3

VARIABLES
  parent,    \* idle, poll, read, write, wait
  retval,    \* what the last run returned
  polled,    \* poll() said that the child's input can be written to
  pIn, pOut, \* child2parent->fd and parent2child->fd are open
  ibuf, obuf,
  feed,      \* what the callback has not given yet
  child,     \* none, running, exited
  program,   \* what the child has still to do
  code,      \* how it will exit: 0 or not
  cIn, cOut, \* its standard input and its standard output are open
  c2p, p2c,  \* the bytes in the sockets
  lines,     \* the lines reported: [text, nl], nl if the newline is the child's
  said, got, \* history: what the child wrote and read
  unfed      \* history: the parent stopped before all was written

pvars == <<parent, retval, polled, pIn, pOut, ibuf, obuf, feed, lines, unfed>>
cvars == <<child, program, code, cIn, cOut, said, got>>
runvars == <<pvars, cvars, c2p, p2c>>

RunInit ==
  /\ parent = "idle" /\ retval = 0 /\ polled = FALSE /\ pIn = FALSE /\ pOut = FALSE
  /\ ibuf = <<>> /\ obuf = <<>> /\ feed = <<>> /\ lines = <<>> /\ unfed = FALSE
  /\ child = "none" /\ program = <<>> /\ code = 0 /\ cIn = FALSE /\ cOut = FALSE
  /\ said = <<>> /\ got = <<>> /\ c2p = <<>> /\ p2c = <<>>

\* The run begins: the sockets and the child are there.  Without a callback the
\* parent closes its end of the child's input at once.
run_chroot(prog, status, callback, bytes) ==
  /\ parent' = "poll" /\ polled' = FALSE /\ retval' = 0
  /\ pIn' = TRUE /\ pOut' = callback /\ ibuf' = <<>> /\ obuf' = <<>> /\ feed' = bytes
  /\ child' = "running" /\ program' = prog /\ code' = status /\ cIn' = TRUE /\ cOut' = TRUE
  /\ c2p' = <<>> /\ p2c' = <<>> /\ lines' = <<>> /\ said' = <<>> /\ got' = <<>> /\ unfed' = FALSE

\* The command is not run: no directory to go to, which counts as success, or no
\* sockets or no process.
run_nothing(ret) ==
  /\ parent' = "idle" /\ retval' = ret /\ child' = "none" /\ lines' = <<>> /\ said' = <<>>
  /\ UNCHANGED <<polled, pIn, pOut, ibuf, obuf, feed, program, code, cIn, cOut, c2p, p2c, got, unfed>>

Readable == c2p # <<>> \/ ~cOut
Writable == Len(p2c) < Capacity \/ ~cIn

\* poll() returns when there is something to do, and the loop ends when both
\* descriptors are closed; what is left in the buffer is reported then.
Line(text, nl) == [text |-> text, nl |-> nl]

poll ==
  /\ parent = "poll" /\ (pIn \/ pOut)
  /\ (pIn /\ Readable) \/ (pOut /\ Writable)
  /\ polled' = (pOut /\ Writable)
  /\ parent' = IF pIn /\ Readable THEN "read" ELSE "write"
  /\ UNCHANGED <<retval, pIn, pOut, ibuf, obuf, feed, lines, unfed, cvars, c2p, p2c>>

poll_over ==
  /\ parent = "poll" /\ ~pIn /\ ~pOut
  /\ lines' = IF ibuf = <<>> THEN lines ELSE Append(lines, Line(ibuf, FALSE))
  /\ parent' = "wait"
  /\ UNCHANGED <<retval, polled, pIn, pOut, ibuf, obuf, feed, unfed, cvars, c2p, p2c>>

\* What follows the last whole line of s, and the whole lines.
LineEnds(s) == {k \in DOMAIN s : s[k] = "nl"}
Unfinished(s) == From(s, IF LineEnds(s) = {} THEN 1 ELSE (CHOOSE k \in LineEnds(s) : \A m \in LineEnds(s) : m <= k) + 1)
Whole(s) ==
  LET whole[k \in 0..Len(s)] == IF k = 0 THEN <<>>
                                ELSE IF s[k] # "nl" THEN whole[k - 1]
                                ELSE Append(whole[k - 1], Line(Unfinished(SubSeq(s, 1, k - 1)), TRUE))
  IN  whole[Len(s)]

Space == ISize - Len(ibuf) - 2

\* A buffer that is full without a newline is reported as a line.
Full(nread) == nread = Space

\* _klpm_chroot_read_from_child().  At the end of the output what is in the buffer is
\* reported and stays there.
ToReport == IF ibuf = <<>> THEN <<>> ELSE <<Line(ibuf, FALSE)>>

read_from_child ==
  /\ parent = "read"
  /\ parent' = "write"
  /\ LET nread == IF Len(c2p) < Space THEN Len(c2p) ELSE Space
         buf == ibuf \o SubSeq(c2p, 1, nread)
     IN  IF nread > 0
         THEN /\ c2p' = From(c2p, nread + 1) /\ UNCHANGED pIn
              /\ IF LineEnds(buf) = {} /\ Full(nread)
                 THEN lines' = Append(lines, Line(buf, FALSE)) /\ ibuf' = <<>>
                 ELSE lines' = lines \o Whole(buf) /\ ibuf' = Unfinished(buf)
         ELSE /\ lines' = lines \o ToReport
              /\ pIn' = FALSE /\ UNCHANGED <<c2p, ibuf>>
  /\ UNCHANGED <<retval, polled, pOut, obuf, feed, unfed, cvars, p2c>>

\* What the callback puts in the buffer, as much as fits: _klpm_hook_feed_targets().
Filled == SubSeq(feed, 1, IF Len(feed) < OSize THEN Len(feed) ELSE OSize)

\* After a send the part that was not sent stays in the buffer.
\* Mutant: the buffer is taken for sent.
UnsentNone(buf, nwrite) == <<>>
Unsent(buf, nwrite) == From(buf, nwrite + 1)

\* _klpm_chroot_write_to_child().
\* Mutant: when all is written the socket stays open.
CloseNever == TRUE
Close == FALSE

write_to_child ==
  /\ parent = "write"
  /\ parent' = "poll"
  /\ LET buf == IF obuf = <<>> THEN Filled ELSE obuf
         nwrite == IF Len(buf) < Capacity - Len(p2c) THEN Len(buf) ELSE Capacity - Len(p2c)
     IN  \/ ~polled /\ UNCHANGED <<pOut, obuf, feed, p2c, unfed>>
         \/ /\ polled /\ buf = <<>>
            /\ pOut' = Close /\ UNCHANGED <<obuf, feed, p2c, unfed>>
         \/ /\ polled /\ buf # <<>>
            /\ feed' = IF obuf = <<>> THEN From(feed, Len(buf) + 1) ELSE feed
            /\ IF cIn
               THEN p2c' = p2c \o SubSeq(buf, 1, nwrite) /\ obuf' = Unsent(buf, nwrite) /\ UNCHANGED <<pOut, unfed>>
               ELSE pOut' = FALSE /\ unfed' = TRUE /\ obuf' = buf /\ UNCHANGED p2c
  /\ UNCHANGED <<retval, polled, pIn, ibuf, lines, cvars, c2p>>

\* waitpid(): an exit status that is not 0, or a signal, is a failure.
\* Mutant: the status is not looked at.
StatusNone == 0
Status == IF code = 0 THEN 0 ELSE 1

waitpid ==
  /\ parent = "wait" /\ child = "exited"
  /\ parent' = "idle" /\ child' = "none"
  /\ retval' = Status
  /\ UNCHANGED <<polled, pIn, pOut, ibuf, obuf, feed, lines, unfed, program, code, cIn, cOut, said, got, c2p, p2c>>

Parent == poll \/ poll_over \/ read_from_child \/ write_to_child \/ waitpid

-----------------------------------------------------------------------------
(* The child, external: reads a byte, reads all there is to come, closes a  *)
(* descriptor, or writes a byte.  What it does with a descriptor that it    *)
(* has closed fails.                                                        *)

Doing(op) == child = "running" /\ program # <<>> /\ Head(program) = op
Bytes == Chars \cup {"nl"}

\* A program that reads to the end of its input.
ReadsAll(prog) == \E k \in DOMAIN prog : prog[k] = "all" /\ \A j \in 1..k - 1 : prog[j] # "closein"

child_read ==
  /\ Doing("read") \/ Doing("all")
  /\ \/ /\ cIn /\ p2c # <<>>
        /\ p2c' = Tail(p2c) /\ got' = Append(got, Head(p2c))
        /\ program' = IF Doing("read") THEN Tail(program) ELSE program
     \/ /\ cIn => p2c = <<>> /\ ~pOut
        /\ program' = Tail(program) /\ UNCHANGED <<p2c, got>>
  /\ UNCHANGED <<pvars, child, code, cIn, cOut, said, c2p>>

child_write ==
  /\ child = "running" /\ program # <<>> /\ Head(program) \in Bytes
  /\ \/ cOut /\ Len(c2p) < Capacity /\ c2p' = Append(c2p, Head(program)) /\ said' = Append(said, Head(program))
     \/ ~cOut /\ UNCHANGED <<c2p, said>>
  /\ program' = Tail(program)
  /\ UNCHANGED <<pvars, child, code, cIn, cOut, got, p2c>>

child_close ==
  /\ \/ Doing("closein") /\ cIn' = FALSE /\ UNCHANGED cOut
     \/ Doing("closeout") /\ cOut' = FALSE /\ UNCHANGED cIn
  /\ program' = Tail(program)
  /\ UNCHANGED <<pvars, child, code, said, got, c2p, p2c>>

child_exit ==
  /\ child = "running" /\ program = <<>>
  /\ child' = "exited" /\ cIn' = FALSE /\ cOut' = FALSE
  /\ UNCHANGED <<pvars, program, code, said, got, c2p, p2c>>

Child == child_read \/ child_write \/ child_close \/ child_exit
=============================================================================
