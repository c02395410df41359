--------------------------------- MODULE Git ---------------------------------
(* The Git commands of the Runtime (gitService.ts) on one repository with a      *)
(* submodule, while an agent or a person edits, stages and commits in the same   *)
(* worktrees and others push to the upstream. A command is several git processes,*)
(* and none of them holds the repository between two of them.                    *)
EXTENDS Naturals, Sequences

CONSTANTS Askers,
          MaxCommits,  \* bound: commits of the branch and of its upstream
          MaxEdits     \* bound: what others do

VARIABLES log,      \* the branch: commits as [id, content], content of the root's file
          upstream, \* the same, of the tracking branch on the remote
          fetched,  \* how many of its commits were there at the last fetch
          index, work, subHead, \* contents; subHead is the submodule's commit
          ask,      \* requests: [op, at, paths, owners]
          made,     \* commits made so far
          edits

gitVars == <<log, upstream, fetched, index, work, subHead, ask, made, edits>>
worktrees == <<index, work, subHead>>
branches == <<log, upstream, fetched, made>>

Paths == {"file", "sub/file"}
Contents == 0 .. 1   \* 0: there is no such file
NoAsk == [op |-> "none", at |-> "none", paths |-> {}, owners |-> {}]

\* submoduleForPath: the submodule that strictly contains a path.
WorktreeOf(p) == IF p = "sub/file" THEN "sub" ELSE "root"
\* partitionGitPathsByWorktree
PathsOf(r, owner) == {p \in ask[r].paths : WorktreeOf(p) = owner}
WorktreesOf(paths) == {WorktreeOf(p) : p \in paths}

Extends(old, new) == Len(old) <= Len(new) /\ SubSeq(new, 1, Len(old)) = old
Tip == log[Len(log)]
HeadOf(p) == IF WorktreeOf(p) = "root" THEN Tip.content ELSE subHead

\* parseStatus: the two columns of a file.
IndexState(p) == IF HeadOf(p) = 0 /\ index[p] = 0 /\ work[p] # 0 THEN "untracked"
                 ELSE IF index[p] = HeadOf(p) THEN "unmodified" ELSE "modified"
WorkState(p) == IF IndexState(p) = "untracked" THEN "untracked"
                ELSE IF work[p] = index[p] THEN "unmodified" ELSE "modified"
Clean(p) == IndexState(p) = "unmodified" /\ WorkState(p) = "unmodified"

\* gitStatus, with the submodule's own files.
Dirty == {p \in Paths : ~Clean(p)}
Ahead == Len(log) > fetched
Behind == \E i \in 1 .. fetched : i > Len(log) \/ log[i] # upstream[i]

Ends(r) == ask' = [ask EXCEPT ![r] = NoAsk]
Goes(r, at) == ask' = [ask EXCEPT ![r].at = at]

------------------------------------------------------------------------------
(* Staging and discarding, one worktree after the other *)

Begin(r, op, paths) ==
  /\ ask[r] = NoAsk
  /\ ask' = [ask EXCEPT ![r] = [op |-> op, at |-> "runs", paths |-> paths, owners |-> WorktreesOf(paths)]]
  /\ UNCHANGED <<branches, worktrees, edits>>

\* Stage, unstage: gitStage and gitUnstage have no check.
StageOrUnstage(r, op, paths) == op \in {"stage", "unstage"} /\ Begin(r, op, paths)

Discardable(p) == IndexState(p) = "unmodified" /\ WorkState(p) \notin {"unmodified", "untracked"}

\* gitDiscard looks at every path before it touches one.
AllDiscardable(paths) == \A p \in paths : Discardable(p)

Discard(r, paths) ==
  /\ AllDiscardable(paths)
  /\ Begin(r, "discard", paths)

\* requireGitSuccess in one worktree: git add, git reset or git restore.
RunInWorktree(r, owner) ==
  LET mine == PathsOf(r, owner) IN
  /\ ask[r].at = "runs" /\ owner \in ask[r].owners
  /\ CASE ask[r].op = "stage"   -> index' = [p \in Paths |-> IF p \in mine THEN work[p] ELSE index[p]] /\ UNCHANGED work
       [] ask[r].op = "unstage" -> index' = [p \in Paths |-> IF p \in mine THEN HeadOf(p) ELSE index[p]] /\ UNCHANGED work
       [] ask[r].op = "discard" -> work' = [p \in Paths |-> IF p \in mine THEN HeadOf(p) ELSE work[p]] /\ UNCHANGED index
  /\ ask' = [ask EXCEPT ![r] = IF @.owners = {owner} THEN NoAsk ELSE [ask[r] EXCEPT !.owners = @ \ {owner}]]
  /\ UNCHANGED <<branches, subHead, edits>>

\* git fails, or the ten seconds of runGit are over: the worktrees done stay done.
RunFails(r) ==
  /\ ask[r].at \in {"runs", "pushes", "reverts"}
  /\ Ends(r)
  /\ UNCHANGED <<branches, worktrees, edits>>

------------------------------------------------------------------------------
(* Commit, undo and push *)

Commit(content) ==
  /\ Len(log) < MaxCommits
  /\ made' = made + 1
  /\ log' = Append(log, [id |-> made + 1, content |-> content])

\* gitCommit: the root's index.
CommitIndex(r) ==
  /\ ask[r] = NoAsk /\ index["file"] # Tip.content
  /\ Commit(index["file"])
  /\ UNCHANGED <<upstream, fetched, worktrees, ask, edits>>

\* gitRevertPreview: a clean tree and a commit with one parent.
PreviewRevert(r) ==
  /\ ask[r] = NoAsk /\ Dirty = {} /\ Len(log) > 1
  /\ ask' = [ask EXCEPT ![r] = [NoAsk EXCEPT !.op = "revert", !.at = "reverts"]]
  /\ UNCHANGED <<branches, worktrees, edits>>

\* Mutant: the branch is moved back.
ResetHead == log' = SubSeq(log, 1, Len(log) - 1) /\ UNCHANGED made

\* git revert: a commit that restores the parent's content, of what HEAD is by now.
RevertCommit == Commit(log[Len(log) - 1].content)

\* gitRevertHead; git refuses if the file or the index has changes.
RevertHead(r) ==
  /\ ask[r].at = "reverts" /\ Clean("file") /\ Len(log) > 1
  /\ RevertCommit
  /\ index' = [index EXCEPT !["file"] = log[Len(log) - 1].content]
  /\ work' = [work EXCEPT !["file"] = log[Len(log) - 1].content]
  /\ Ends(r)
  /\ UNCHANGED <<upstream, fetched, subHead, edits>>

\* gitPushPreview: local commits to push, and none known that is missing.
PreviewPush(r) ==
  /\ ask[r] = NoAsk /\ Ahead /\ ~Behind
  /\ ask' = [ask EXCEPT ![r] = [NoAsk EXCEPT !.op = "push", !.at = "pushes"]]
  /\ UNCHANGED <<branches, worktrees, edits>>

\* Mutant: with --force.
AnyPush == TRUE

\* Without --force the remote takes what extends its branch.
FastForward == Extends(upstream, log)

\* gitPush: the branch is pushed as it is by now.
Push(r) ==
  /\ ask[r].at = "pushes"
  /\ IF FastForward
     THEN upstream' = log /\ fetched' = Len(log)
     ELSE UNCHANGED <<upstream, fetched>>
  /\ Ends(r)
  /\ UNCHANGED <<log, made, worktrees, edits>>

------------------------------------------------------------------------------
(* Everyone else *)

Other == edits < MaxEdits /\ edits' = edits + 1

Edit(p, content) ==
  /\ Other
  /\ work' = [work EXCEPT ![p] = content]
  /\ UNCHANGED <<branches, index, subHead, ask>>

StageByHand(p) ==
  /\ Other
  /\ index' = [index EXCEPT ![p] = work[p]]
  /\ UNCHANGED <<branches, work, subHead, ask>>

CommitByHand ==
  /\ Other /\ index["file"] # Tip.content
  /\ Commit(index["file"])
  /\ UNCHANGED <<upstream, fetched, worktrees, ask>>

\* Someone else pushes to the upstream, or the branch is fetched.
PushByOthers ==
  /\ Other /\ Len(upstream) < MaxCommits
  /\ made' = made + 1
  /\ upstream' = Append(upstream, [id |-> made + 1, content |-> 0])
  /\ UNCHANGED <<log, fetched, worktrees, ask>>

Fetch ==
  /\ fetched # Len(upstream)
  /\ fetched' = Len(upstream)
  /\ UNCHANGED <<log, upstream, made, worktrees, ask, edits>>

GitInit ==
  /\ log = <<[id |-> 1, content |-> 1]>> /\ upstream = log /\ fetched = 1 /\ made = 1
  /\ index = [p \in Paths |-> 1] /\ work = index /\ subHead = 1
  /\ ask = [r \in Askers |-> NoAsk]
  /\ edits = 0

GitNext ==
  \/ \E r \in Askers :
       \/ \E paths \in (SUBSET Paths) \ {{}} :
            Discard(r, paths) \/ \E op \in {"stage", "unstage"} : StageOrUnstage(r, op, paths)
       \/ \E owner \in {"root", "sub"} : RunInWorktree(r, owner)
       \/ RunFails(r) \/ CommitIndex(r) \/ PreviewRevert(r) \/ RevertHead(r)
       \/ PreviewPush(r) \/ Push(r)
  \/ \E p \in Paths : StageByHand(p) \/ \E content \in Contents : Edit(p, content)
  \/ CommitByHand \/ PushByOthers \/ Fetch

------------------------------------------------------------------------------

\* The branch and its upstream only ever grow: an undo is a new commit and a push takes
\* nothing from the remote, whatever was committed or pushed since the preview
\* ("It never resets or force-pushes", gitService.ts gitRevertHead, gitPush).
HistoryIsKept == [][Extends(log, log') /\ Extends(upstream, upstream')]_gitVars
==============================================================================
