------------------------- MODULE PollingListener -------------------------
(* The list of polled directories of PollingListener                        *)
(* (src/bin/daemon/eventlistener/pollinglistener.cpp): m_watches, a vector  *)
(* of paths, with the operations that keep it.  Each operation holds the    *)
(* mutex while it looks at the list, and the one thread that calls them in  *)
(* the daemon is the listener's, so they are operators here and steps in    *)
(* FsListener.  Paths are names; what the code asks of their strings is in  *)
(* the constants.                                                           *)
EXTENDS Integers, Sequences, FiniteSets

S == INSTANCE SequencesExt

CONSTANTS Under(_, _),     \* Under(p, d): p is the directory d or lies in it
          StartsWith(_, _), \* StartsWith(p, d): the string p begins with the string d
          Sorted           \* the paths in the order of their strings

\* pollinglistener.cpp 123-139: a path is in the list at most once.
AddWatch(watches, path) ==
    IF path \in S!ToSet(watches) THEN watches ELSE Append(watches, path)

\* The body of the loop of addWatches().  fixPath() ends the new path with a
\* '/' and the entries have none, so "temp starts with *it" is true of every
\* path that begins with the same letters, and "*it starts with temp" of the
\* subdirectories alone.  The loop stops at the first entry that fits.
AddReduced(watches, path) ==
    LET covers(i)  == StartsWith(path, watches[i])
        within(i)  == Under(watches[i], path)
        fits       == {i \in 1..Len(watches) : covers(i) \/ within(i)}
        first      == CHOOSE i \in fits : \A j \in fits : i <= j
    IN  IF fits = {}         THEN AddWatch(watches, path)
        ELSE IF covers(first) THEN watches
        ELSE AddWatch(S!RemoveAt(watches, first), path)

\* addWatches(): the set is walked in the order of the strings.
AddWatches(watches, dirs) ==
    LET list[i \in 0..Len(Sorted)] ==
            IF i = 0 THEN watches
            ELSE IF Sorted[i] \in dirs THEN AddReduced(list[i - 1], Sorted[i])
            ELSE list[i - 1]
    IN  list[Len(Sorted)]

\* rmWatch(): erase() moves the later entries down by one, and the iterator,
\* which was advanced before, then skips the entry that follows.
Erased(watches, path) ==
    LET gone[i \in 0..Len(watches)] ==
            i > 0 /\ StartsWith(watches[i], path) /\ ~gone[i - 1]
    IN  {i \in 1..Len(watches) : gone[i]}

\* What is left of the list.
RmWatch(watches, path) ==
    LET erased == Erased(watches, path)
        left[i \in 0..Len(watches)] ==
            IF i = 0 THEN <<>>
            ELSE IF i \in erased THEN left[i - 1]
            ELSE Append(left[i - 1], watches[i])
    IN  left[Len(watches)]

\* When the last entry is erased, the iterator is one behind the new end,
\* never equal to it, and the loop reads on through freed memory.
RunsPastEnd(watches, path) == Len(watches) \in Erased(watches, path)
==========================================================================
