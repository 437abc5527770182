------------------------- MODULE LogManagerClients -------------------------
(***************************************************************************)
(* Threads that share a LogManager and call its methods in any order.       *)
(* Because a method is one step, the calls form one sequence, kept in calls. *)
(***************************************************************************)
EXTENDS LogManager, FiniteSets

CONSTANTS Limits,       \* arguments of setMaxCachedLogs
          MaxCalls      \* bound on the calls of a run

ASSUME LogManagerClientsAssumption == Limits \subseteq Nat /\ MaxCalls \in Nat

VARIABLES calls,        \* history: the calls made
          alive         \* the object has not been destroyed

clientsVars == <<managerVars, calls, alive>>

ClientsInit ==
  /\ LogManagerInit
  /\ calls = <<>>
  /\ alive = TRUE

Call(op, arg) ==
  /\ alive
  /\ Len(calls) < MaxCalls
  /\ calls' = Append(calls, [op |-> op, arg |-> arg, open |-> logger.open])
  /\ UNCHANGED alive

\* A line is named by its place in calls.
CallLog == \E level \in {"Info", "Error"} :
  Call("log", level) /\ log(level, Len(calls) + 1)

CallSetMaxCachedLogs == \E n \in Limits : Call("limit", n) /\ setMaxCachedLogs(n)

CallSetAutoFlush == \E b \in BOOLEAN : Call("flush", b) /\ setAutoFlush(b)

CallSetConsoleEnabled == \E b \in BOOLEAN : Call("console", b) /\ setConsoleEnabled(b)

CallClearRecentLogs == Call("clear", 0) /\ clearRecentLogs

CallResetLogCounts == Call("reset", 0) /\ resetLogCounts

Destroy == alive /\ alive' = FALSE /\ UNCHANGED calls
           /\ \/ destroy
              \/ ~logger.open /\ UNCHANGED managerVars

ClientsNext ==
  \/ CallLog \/ CallSetMaxCachedLogs \/ CallSetAutoFlush
  \/ CallSetConsoleEnabled \/ CallClearRecentLogs \/ CallResetLogCounts
  \/ Spill /\ UNCHANGED <<calls, alive>>
  \/ Destroy
  \/ ~alive /\ UNCHANGED clientsVars

ClientsSpec == ClientsInit /\ [][ClientsNext]_clientsVars
----------------------------------------------------------------------------
IsLog(i) == calls[i].op = "log"

\* The limit in force after call i.
LimitAt(i) ==
  LET limits == {j \in 1 .. i : calls[j].op = "limit"}
  IN IF limits = {} THEN InitialMax
     ELSE calls[CHOOSE j \in limits : \A k \in limits : k <= j].arg

LogsBetween(i, j) == {k \in (i + 1) .. j : IsLog(k)}

\* Whether line i is to be in the cache: since it was logged the cache was not
\* cleared, and at no moment did as many lines as the limit follow it.
Cached(i) ==
  /\ IsLog(i)
  /\ \A j \in i .. Len(calls) :
       /\ calls[j].op /= "clear"
       /\ Cardinality(LogsBetween(i, j)) < LimitAt(j)

\* The cache holds exactly the lines it should, oldest first, however the limit
\* was lowered, raised and set to 0 between the calls of log.
RecentLogsExact ==
  /\ \A i \in 1 .. Len(calls) :
       Cached(i) <=> \E p \in 1 .. Len(logger.recentLogs) : logger.recentLogs[p] = i
  /\ \A p, q \in 1 .. Len(logger.recentLogs) :
       p < q => logger.recentLogs[p] < logger.recentLogs[q]

\* Each counter tells the lines of its level since the last reset, cached or not.
LogCountsExact ==
  \A level \in LogLevel :
    logger.logCounts[level] =
      Cardinality({i \in 1 .. Len(calls) :
                     /\ IsLog(i) /\ calls[i].arg = level
                     /\ \A j \in i .. Len(calls) : calls[j].op /= "reset"})

\* The file and the stream's buffer together hold every line logged while the
\* file was open, in order, and after the destructor the file alone does.
FileComplete ==
  LET lines == disk \o unflushed
  IN /\ \A p, q \in 1 .. Len(lines) : p < q => lines[p] < lines[q]
     /\ \A i \in 1 .. Len(calls) :
          IsLog(i) /\ calls[i].open <=> \E p \in 1 .. Len(lines) : lines[p] = i
     /\ ~alive => unflushed = <<>>

\* After any calls in any order the logger's answers are what the calls made
\* them: the cache, the counters and the file, each against a definition that
\* sees only the history of calls (log_manager.cpp 81-205).
LoggerExact == RecentLogsExact /\ LogCountsExact /\ FileComplete
============================================================================
