----------------------------- MODULE LogManager -----------------------------
(***************************************************************************)
(* cpp_modules/log_manager: a log file with a cache of the most recent       *)
(* lines and a counter per level.  Every method holds mutex_ from its first  *)
(* to its last access, so each is one step for the threads that share it.    *)
(* Console output is left out; the flag that controls it is kept.            *)
(***************************************************************************)
EXTENDS Integers, Sequences

CONSTANT InitialMax     \* maxCachedLogs_ of a new LogManager

ASSUME LogManagerAssumption == InitialMax \in Nat

VARIABLES
  logger,       \* the object's members
  disk,         \* the lines in the file
  unflushed     \* the lines in the stream's buffer

managerVars == <<logger, disk, unflushed>>

LogLevel == {"Info", "Warning", "Error"}

LogManagerInit ==
  /\ \E open \in BOOLEAN :
       logger = [open |-> open, consoleEnabled |-> TRUE, autoFlush |-> TRUE,
                 maxCachedLogs |-> InitialMax, recentLogs |-> <<>>,
                 logCounts |-> [level \in LogLevel |-> 0]]
  /\ disk = <<>>
  /\ unflushed = <<>>

setConsoleEnabled(enabled) ==
  /\ logger' = [logger EXCEPT !.consoleEnabled = enabled]
  /\ UNCHANGED <<disk, unflushed>>

setAutoFlush(enabled) ==
  /\ logger' = [logger EXCEPT !.autoFlush = enabled]
  /\ UNCHANGED <<disk, unflushed>>

\* Mutant: the lines are dropped at the wrong end.
Newest_oldest(lines, n) ==
  IF Len(lines) > n THEN SubSeq(lines, 1, n) ELSE lines

\* The newest n of a sequence of lines.
Newest(lines, n) ==
  IF Len(lines) > n THEN SubSeq(lines, Len(lines) - n + 1, Len(lines)) ELSE lines

\* A limit of 0 clears the cache, any other drops the oldest lines.
setMaxCachedLogs(maxCount) ==
  /\ logger' = [logger EXCEPT
       !.maxCachedLogs = maxCount,
       !.recentLogs = IF maxCount = 0 THEN <<>> ELSE Newest(@, maxCount)]
  /\ UNCHANGED <<disk, unflushed>>

cacheLogLine(lines, limit, line) ==
  IF limit = 0 THEN lines ELSE Newest(Append(lines, line), limit)

\* The code does not look at the state of the stream after << and flush
\* (log_manager.cpp 128-137); here what is written to it arrives.
log(level, line) ==
  /\ logger' = [logger EXCEPT
       !.recentLogs = cacheLogLine(@, logger.maxCachedLogs, line),
       !.logCounts[level] = @ + 1]
  /\ IF logger.open
     THEN IF logger.autoFlush
          THEN disk' = disk \o Append(unflushed, line) /\ unflushed' = <<>>
          ELSE unflushed' = Append(unflushed, line) /\ UNCHANGED disk
     ELSE UNCHANGED <<disk, unflushed>>

clearRecentLogs ==
  /\ logger' = [logger EXCEPT !.recentLogs = <<>>]
  /\ UNCHANGED <<disk, unflushed>>

resetLogCounts ==
  /\ logger' = [logger EXCEPT !.logCounts = [level \in LogLevel |-> 0]]
  /\ UNCHANGED <<disk, unflushed>>

\* The stream writes its buffer whenever it likes.
Spill ==
  /\ unflushed /= <<>>
  /\ disk' = disk \o unflushed
  /\ unflushed' = <<>>
  /\ UNCHANGED logger

\* ~LogManager: close() writes the buffer, with or without the flush before it.
destroy ==
  /\ logger.open
  /\ disk' = disk \o unflushed
  /\ unflushed' = <<>>
  /\ logger' = [logger EXCEPT !.open = FALSE]
=============================================================================
