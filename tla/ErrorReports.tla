----------------------------- MODULE ErrorReports -----------------------------
(***************************************************************************)
(* The error managers, ClassificationAdapter and CapturingErrorAdapter,    *)
(* with the functions their handle_errors() decorates, and the loggers of  *)
(* InMemoryLoggerAdapter the reports are written to.                       *)
(***************************************************************************)
EXTENDS Naturals, Containers

CONSTANTS
  Errors,      \* kinds of exceptions that are raised: subset of Kinds
  Contexts,    \* what is bound to a logger: subset of Context
  MaxDepth,    \* bound: nested calls
  MaxReports,  \* bound: reports and log records at will
  MaxRaised,   \* bound: exceptions raised
  MaxLoggers   \* bound: loggers

VARIABLES
  capturing,   \* CapturingErrorAdapter, else ClassificationAdapter
  calls,       \* the functions that are being executed, innermost last
  flying,      \* the exception that is being propagated, or NoError
  captured,    \* _captured: the number of exceptions kept
  total,       \* cenf.error.classified_total, by error_type
  loggers,     \* the context each logger has bound; the adapter has the first
  logs,        \* the buffer they share
  raised,      \* history: exceptions raised
  mark,        \* history: all of total, when the one in flight was raised
  left         \* history: the functions it has left

vars == <<capturing, calls, flying, captured, total, loggers, logs, raised, mark, left>>

Kinds == {"TransientError", "PermanentError", "ValidationError", "AuthError", "RateLimitError",
          "CenfError", "OSError", "ExceptionGroup", "Exception"}
Classes == {"TRANSIENT", "PERMANENT", "VALIDATION", "AUTH", "RATE_LIMIT"}
NoError == "none"

\* classify: TimeoutError and ConnectionError are OSErrors; a group is not
\* unwound, whatever it contains.
Classify(error) ==
  CASE error \in {"TransientError", "OSError"} -> "TRANSIENT"
    [] error = "ValidationError" -> "VALIDATION"
    [] error = "AuthError" -> "AUTH"
    [] error = "RateLimitError" -> "RATE_LIMIT"
    [] OTHER -> "PERMANENT"

\* A decorated function may be a coroutine function, like the get, set and
\* delete of the cache adapters; without a wrapper that makes no difference.
Function == {f \in [decorated : BOOLEAN, async : BOOLEAN] : f.async => f.decorated}

\* Fields that are bound, or given with a record; "" for one that is not.
Levels == {"INFO", "ERROR"}
Context == [level : Levels \union {""}, error_type : Classes \union {""}]
Record == [level : Levels, error_type : Classes \union {""}, message : Classes \union {"note"}]

Stack == {s \in Seq(Function) : Len(s) <= MaxDepth}

TypeOK ==
  /\ capturing \in BOOLEAN
  /\ calls \in Stack /\ left \in Stack
  /\ flying \in Errors \union {NoError}
  /\ captured \in 0..raised + MaxReports
  /\ total \in [Classes -> Nat]
  /\ Elements(loggers) \subseteq Context /\ Len(loggers) \in 1..MaxLoggers
  /\ Elements(logs) \subseteq Record
  /\ raised \in 0..MaxRaised /\ mark \in Nat

Unbound == [level |-> "", error_type |-> ""]

Init ==
  /\ capturing \in BOOLEAN
  /\ calls = <<>> /\ flying = NoError /\ captured = 0
  /\ total = [c \in Classes |-> 0]
  /\ loggers \in {<<context>> : context \in Contexts} /\ logs = <<>>
  /\ raised = 0 /\ mark = 0 /\ left = <<>>

-----------------------------------------------------------------------------
\* What is given last wins.
Over(base, context) ==
  [f \in DOMAIN base |-> IF f \in DOMAIN context /\ context[f] # "" THEN context[f] ELSE base[f]]

\* _record: level and message, then the bound context, then what the call gives.
Written(i, level, message, given) ==
  Append(logs, Over(Over([level |-> level, error_type |-> "", message |-> message], loggers[i]), given))

\* bind: a new logger, with the same buffer.
Bind(i, context) ==
  /\ Len(loggers) < MaxLoggers
  /\ loggers' = Append(loggers, Over(loggers[i], context))
  /\ UNCHANGED <<capturing, calls, flying, captured, total, logs, raised, mark, left>>

\* The program logs with any of its loggers.
Note(i) ==
  /\ Len(logs) < MaxReports
  /\ logs' = Written(i, "INFO", "note", Unbound)
  /\ UNCHANGED <<capturing, calls, flying, captured, total, loggers, raised, mark, left>>

ClearLogs ==
  /\ logs' = <<>>
  /\ UNCHANGED <<capturing, calls, flying, captured, total, loggers, raised, mark, left>>

-----------------------------------------------------------------------------
Total == total["TRANSIENT"] + total["PERMANENT"] + total["VALIDATION"] + total["AUTH"] + total["RATE_LIMIT"]

\* report: one log record and one count.
Reported(error) ==
  LET class == Classify(error)
  IN  /\ logs' = Written(1, "ERROR", class, [error_type |-> class])
      /\ total' = [total EXCEPT ![class] = @ + 1]

Report(error) ==
  /\ flying = NoError /\ Total < MaxReports
  /\ Reported(error)
  /\ UNCHANGED <<capturing, calls, flying, captured, loggers, raised, mark, left>>

\* handle: nothing is raised, the caller gets a report.
Handle(error) == ~capturing /\ Report(error)

\* That of the double keeps the exception as well.
HandleCaptured(error) ==
  /\ capturing /\ flying = NoError /\ Total < MaxReports
  /\ captured' = captured + 1
  /\ Reported(error)
  /\ UNCHANGED <<capturing, calls, flying, loggers, raised, mark, left>>

Call(f) ==
  /\ flying = NoError /\ Len(calls) < MaxDepth
  /\ calls' = Append(calls, f)
  /\ UNCHANGED <<capturing, flying, captured, total, loggers, logs, raised, mark, left>>

Return ==
  /\ flying = NoError /\ calls # <<>>
  /\ calls' = Popped(calls)
  /\ UNCHANGED <<capturing, flying, captured, total, loggers, logs, raised, mark, left>>

Raise(error) ==
  /\ flying = NoError /\ calls # <<>> /\ raised < MaxRaised
  /\ flying' = error
  /\ raised' = raised + 1 /\ mark' = Total /\ left' = <<>>
  /\ UNCHANGED <<capturing, calls, captured, total, loggers, logs>>

\* The wrapper of handle_errors is a plain function: of a coroutine function
\* it only sees the coroutine being made, and the body runs after it returned.
Guards(f) == f.decorated /\ ~f.async

\* The exception leaves the innermost function without passing a wrapper.
Leave ==
  /\ flying # NoError /\ calls # <<>> /\ ~Guards(Top(calls))
  /\ calls' = Popped(calls) /\ left' = Append(left, Top(calls))
  /\ UNCHANGED <<capturing, flying, captured, total, loggers, logs, raised, mark>>

\* The wrapper of ClassificationAdapter reports and raises again: decorated
\* functions that call each other report one exception several times.
LeaveReported ==
  /\ ~capturing /\ flying # NoError /\ calls # <<>> /\ Guards(Top(calls))
  /\ Reported(flying)
  /\ calls' = Popped(calls) /\ left' = Append(left, Top(calls))
  /\ UNCHANGED <<capturing, flying, captured, loggers, raised, mark>>

\* That of CapturingErrorAdapter keeps the exception, reports, and returns None.
Capture ==
  /\ capturing /\ flying # NoError /\ calls # <<>> /\ Guards(Top(calls))
  /\ captured' = captured + 1
  /\ Reported(flying)
  /\ calls' = Popped(calls) /\ flying' = NoError /\ left' = <<>> /\ mark' = 0
  /\ UNCHANGED <<capturing, loggers, raised>>

\* Nobody is left: the exception is somebody else's.  A function that is still
\* executing may also catch it.
Catch ==
  /\ flying # NoError
  /\ flying' = NoError /\ left' = <<>> /\ mark' = 0
  /\ UNCHANGED <<capturing, calls, captured, total, loggers, logs, raised>>

ClearCaptured ==
  /\ captured' = 0
  /\ UNCHANGED <<capturing, calls, flying, total, loggers, logs, raised, mark, left>>

Next ==
  \/ \E i \in DOMAIN loggers : Note(i) \/ \E context \in Contexts \ {Unbound} : Bind(i, context)
  \/ \E error \in Errors : Report(error) \/ Handle(error) \/ HandleCaptured(error) \/ Raise(error)
  \/ \E f \in Function : Call(f)
  \/ Return \/ Leave \/ LeaveReported \/ Capture \/ Catch
  \/ ClearLogs \/ ClearCaptured

Spec == Init /\ [][Next]_vars

-----------------------------------------------------------------------------
(* Properties *)

\* An exception in flight has been counted once for every decorated function it
\* has left, coroutines aside; the capturing double lets it leave none.  Of the
\* count of a group nothing is said: the code counts it as one exception, the
\* documents each of those in it.
CountedOnTheWay ==
  flying # NoError =>
    LET guards == Cardinality({i \in DOMAIN left : Guards(left[i])})
    IN  /\ flying = "ExceptionGroup" \/ Total - mark = guards
        /\ capturing => guards = 0

\* Whatever the loggers have bound, the record of a report has its classification.
RecordsClassified == \A i \in DOMAIN logs : logs[i].message \in Classes => logs[i].error_type = logs[i].message
=============================================================================
