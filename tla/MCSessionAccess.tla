-------------------------- MODULE MCSessionAccess ---------------------------
(* The runtime of a session, its subsessions and its entries; the pages of its *)
(* history, the tree of its entries and the cleanup of old sessions. They      *)
(* share no state: a behaviour is one of one of them, which the first state    *)
(* chooses.                                                                    *)
EXTENDS SessionAccess, Subsessions, SessionEntries, SessionHistory, SessionTree, SessionCleanup, TLC
CONSTANTS t1, t2, t3, t4

Part(kind, found) == [kind |-> kind, found |-> found]
MCMessages ==
  {[role |-> "user", parts |-> {Part("text", TRUE)}],
   [role |-> "user", parts |-> {Part("text", FALSE)}],
   [role |-> "assistant", parts |-> {Part("tool_call", TRUE)}],
   [role |-> "assistant", parts |-> {Part("text", FALSE), Part("tool_call", TRUE)}],
   [role |-> "other", parts |-> {}]}
MCForkedFrom == ("a" :> "a" @@ "b" :> "a")

VARIABLE component

accessVars == vars
allVars == <<component, accessVars, subsessionVars, entriesVars, historyVars, treeVars, cleanupVars>>

SomeTree == CHOOSE t \in Trees : TRUE

\* The components that rest are in one initial state.
MCInit ==
  /\ component \in {"access", "subsessions", "entries", "history", "tree", "cleanup"}
  /\ Init /\ SubsessionsInit /\ EntriesInit /\ HistoryInit /\ CleanupInit
  /\ component = "history"
       \/ (query.roles = AnyOf /\ query.include = AnyOf /\ query.search /\ query.limit = 1)
  /\ component = "cleanup" \/ Placed("listed") = CleanSessions
  /\ tree \in IF component = "tree" THEN Trees ELSE {SomeTree}
  /\ TreeInit

MCNext ==
  /\ UNCHANGED component
  /\ \/ /\ component = "access" /\ Next
        /\ UNCHANGED <<subsessionVars, entriesVars, historyVars, treeVars, cleanupVars>>
     \/ /\ component = "subsessions" /\ SubsessionsNext
        /\ UNCHANGED <<accessVars, entriesVars, historyVars, treeVars, cleanupVars>>
     \/ /\ component = "entries" /\ EntriesNext
        /\ UNCHANGED <<accessVars, subsessionVars, historyVars, treeVars, cleanupVars>>
     \/ /\ component = "history" /\ HistoryNext
        /\ UNCHANGED <<accessVars, subsessionVars, entriesVars, treeVars, cleanupVars>>
     \/ /\ component = "tree" /\ TreeNext
        /\ UNCHANGED <<accessVars, subsessionVars, entriesVars, historyVars, cleanupVars>>
     \/ /\ component = "cleanup" /\ CleanupNext
        /\ UNCHANGED <<accessVars, subsessionVars, entriesVars, historyVars, treeVars>>

\* Nothing that has to happen is enabled in the first state of a component, so the fairness of
\* those that rest asks for nothing.
MCFairness == Fairness /\ SubsessionsFairness /\ EntriesFairness

MCSpec == MCInit /\ [][MCNext]_allVars /\ MCFairness

------------------------------------------------------------------------------

Outstanding ==
  \/ component = "access" /\ (queued > 0 \/ \E r \in Requests : ~At(r, "new") /\ ~At(r, "done"))
  \/ component = "subsessions" /\ \E c \in Children : c \in armed /\ work[c] = "none"
  \/ component = "entries" /\ current \in postponed

\* Everything that waits comes to its end: requests (piSessionService.ts getActive, closeActive),
\* prompts a compaction held back (drainCompactionPromptQueue), the notice of a child that
\* stopped (publishHeartbeats), and a name that a navigation put off (navigateTree), unless its
\* session is closed. There are finitely many of them.
NothingIsOutstanding == []<>~Outstanding

\* The past is shown as it was, and what was done to it as it was done: readers of a history get
\* whole pages and its whole tree, and the reports of cleanups are true (subsessionTranscript.ts,
\* messagePaging.ts, sessionTreeProjection.ts, sessionCleanup.ts, sessionArchiveTree.ts).
HistoryIsTrue == PagesAreWhole /\ TreeIsWhole /\ ReportIsTrue
============================================================================
