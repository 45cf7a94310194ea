------------------------------- MODULE Logger -------------------------------
(***************************************************************************)
(* Logger: one object, LOG, with one FILE* member that every printing      *)
(* thread assigns, uses and leaves dangling, without a mutex.  Between     *)
(* Open and Close the thread prints through whatever logFile then names.   *)
(***************************************************************************)
CONSTANTS
    Threads,    \* threads that print
    Files,      \* the FILE objects fopen() may return
    None

VARIABLES
    logFile,    \* the member; after fclose() it still names the closed file
    openFiles,  \* what has been opened and not closed
    opened      \* opened[t]: what thread t's fopen() returned, or None

logVars == <<logFile, openFiles, opened>>

\* init(): the header has been written and the file closed.
Init ==
    /\ logFile \in Files
    /\ openFiles = {}
    /\ opened = [t \in Threads |-> None]

\* defaultPrint(), up to the first fprintf().
Open(t) ==
    /\ opened[t] = None
    /\ \E f \in Files \ openFiles :
            /\ logFile' = f
            /\ openFiles' = openFiles \cup {f}
            /\ opened' = [opened EXCEPT ![t] = f]

\* The second fprintf() and fclose(logFile).  To close a file that is closed
\* already is undefined; here it closes nothing.
Close(t) ==
    /\ opened[t] # None
    /\ openFiles' = openFiles \ {logFile}
    /\ opened' = [opened EXCEPT ![t] = None]
    /\ UNCHANGED logFile

-----------------------------------------------------------------------------

\* Every thread prints to the file it opened, which is still open, and no
\* file is left open by a thread that has returned.
LogFileOwned ==
    /\ \A t \in Threads : opened[t] # None => opened[t] = logFile /\ logFile \in openFiles
    /\ \A f \in openFiles : \E t \in Threads : opened[t] = f
=============================================================================
