----------------------------- MODULE SessionCache -----------------------------
(***************************************************************************)
(* sessioncache/file.go: the one file that outlives the process beside the *)
(* database.  Its directory holds the cache and, while a save runs, a      *)
(* temporary file; each may be absent or half written.                     *)
(***************************************************************************)
EXTENDS TradingCalendar, Sequences

Absent == [kind |-> "absent"]
Torn   == [kind |-> "torn"]
Cached(token, issued, expires) ==
    [kind |-> "record", token |-> token, issued |-> issued, expires |-> expires]

\* nextKiteExpiry: 06:00 of the day after, also for a login before 06:00.
NextKiteExpiry(issued) == (TradingDate(issued) + 1) * DayLength + Flush

\* Save with the cache itself opened, emptied and written.
SaveInPlace(dir, token, issued) ==
    LET new == Cached(token, issued, NextKiteExpiry(issued)) IN
    <<[dir EXCEPT !.cache = Torn], [dir EXCEPT !.cache = new], [dir EXCEPT !.cache = new]>>

\* Save: what the directory looks like after each call that changes it, the
\* creation of the temporary file, its encoding (synced and closed) and the rename.
Save(dir, token, issued) ==
    LET new == Cached(token, issued, NextKiteExpiry(issued)) IN
    <<[dir EXCEPT !.temporary = Torn],
      [dir EXCEPT !.temporary = new],
      [dir EXCEPT !.temporary = Absent, !.cache = new]>>

\* What a save leaves behind: it runs to its end, dies after some of its calls, or
\* one call fails and the deferred Remove takes the temporary file away again.
Leaves(dir, token, issued, call, how) ==
    LET calls == Save(dir, token, issued)
        reached == IF call = 0 THEN dir ELSE calls[call]
    IN CASE how = "returns" -> calls[Len(calls)]
         [] how = "dies"    -> reached
         [] how = "fails"   -> IF call = Len(calls) THEN reached
                               ELSE [reached EXCEPT !.temporary = Absent]

Valid(file) == file.kind = "record" /\ file.expires > file.issued

\* Load at a restart.  An expired record is deleted: nothing is restored from it.
\* Anything that is not a record is an error, with which main ends.
Load(dir, now) ==
    IF dir.cache = Absent THEN [says |-> "no session"]
    ELSE IF ~Valid(dir.cache) THEN [says |-> "error"]
    ELSE IF now >= dir.cache.expires THEN [says |-> "no session"]
    ELSE [says |-> "session", token |-> dir.cache.token]
===============================================================================
