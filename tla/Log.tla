-------------------------------- MODULE Log --------------------------------
(***************************************************************************)
(* log_write and cur_time (source/util/log.c).  A line is printed in three *)
(* pieces into one file that all threads share, and cur_time formats into  *)
(* one static buffer; log_mutex is held over all of it.  A step runs to    *)
(* the next call of the kernel or of stdio.                                *)
(***************************************************************************)
EXTENDS Sequences, Naturals

CONSTANTS
  Workers,  \* the threads that log
  NoOne

ASSUME LogAssumption == NoOne \notin Workers

VARIABLES
  log_mutex,  \* its owner
  log_file,   \* log_file # NULL
  timebuf,    \* the worker whose time is in the static buffer of cur_time
  line,       \* what the file has of a line without its end: <<whose, whose time>>
  lpc         \* where each thread is in log_write
fileVars == <<log_mutex, log_file, timebuf, line>>
logVars  == <<fileVars, lpc>>

LogPCs == {"out", "lock", "open", "stamp", "head", "text", "end"}

LogInit ==
  /\ log_mutex = NoOne
  /\ log_file = FALSE
  /\ timebuf = NoOne
  /\ line = <<>>
  /\ lpc = [w \in Workers |-> "out"]

LogGoto(w, from, to) == lpc[w] = from /\ lpc' = [lpc EXCEPT ![w] = to]

\* A call of log_info, log_warning or log_error; the caller goes on at "out".
Enter(w) == LogGoto(w, "out", "lock")

\* Mutant: the mutex is not waited for.
LockAnyway(w) ==
  /\ LogGoto(w, "lock", IF log_file THEN "stamp" ELSE "open")
  /\ log_mutex' = w
  /\ UNCHANGED <<log_file, timebuf, line>>

Lock(w) ==
  /\ log_mutex = NoOne
  /\ LogGoto(w, "lock", IF log_file THEN "stamp" ELSE "open")
  /\ log_mutex' = w
  /\ UNCHANGED <<log_file, timebuf, line>>

Open(w) ==
  /\ LogGoto(w, "open", "stamp")
  /\ log_file' = TRUE
  /\ UNCHANGED <<log_mutex, timebuf, line>>

\* Mutant: the mutex stays locked.
OpenFailsLocked(w) ==
  /\ LogGoto(w, "open", "out")
  /\ UNCHANGED fileVars

\* No card yet, or no room: the line is dropped, and the next one tries again.
OpenFails(w) ==
  /\ LogGoto(w, "open", "out")
  /\ log_mutex' = NoOne
  /\ UNCHANGED <<log_file, timebuf, line>>

Stamp(w) ==
  /\ LogGoto(w, "stamp", "head")
  /\ timebuf' = w
  /\ UNCHANGED <<log_mutex, log_file, line>>

PrintHead(w) ==
  /\ LogGoto(w, "head", "text")
  /\ line' = Append(line, <<w, timebuf>>)
  /\ UNCHANGED <<log_mutex, log_file, timebuf>>

PrintText(w) ==
  /\ LogGoto(w, "text", "end")
  /\ line' = Append(line, <<w, w>>)
  /\ UNCHANGED <<log_mutex, log_file, timebuf>>

\* The end of the line, fflush and mutexUnlock
PrintEnd(w) ==
  /\ LogGoto(w, "end", "out")
  /\ line' = <<>>
  /\ log_mutex' = NoOne
  /\ UNCHANGED <<log_file, timebuf>>

LogStep(w) ==
  \/ Lock(w) \/ Open(w) \/ OpenFails(w) \/ Stamp(w)
  \/ PrintHead(w) \/ PrintText(w) \/ PrintEnd(w)

-----------------------------------------------------------------------------

LogTypeOK ==
  /\ log_mutex \in Workers \cup {NoOne}
  /\ log_file \in BOOLEAN
  /\ timebuf \in Workers \cup {NoOne}
  /\ line \in Seq(Workers \X (Workers \cup {NoOne}))
  /\ lpc \in [Workers -> LogPCs]

\* The lines of the file are whole: until its end is printed, a line has at most
\* a head and a text, of one thread, and the time in its head is that thread's.
LinesAreWhole ==
  /\ Len(line) <= 2
  /\ \A k \in 1 .. Len(line) : line[k] = <<line[1][1], line[1][1]>>
=============================================================================
