---------------------------- MODULE GitopsWatcher ----------------------------
(***************************************************************************)
(* `zynax gitops watch`: the manifests of a directory tree, the notices of *)
(* their changes, the hashes of what was applied (in memory and in the     *)
(* state file), and the gateway the changed manifests are applied to.      *)
(***************************************************************************)
EXTENDS Naturals, Sequences, FiniteSets, SequencesExt

CONSTANTS Files,      \* manifests, in walking order (a sequence)
          Late,       \* files of a subdirectory that may not exist at the start
          Contents,   \* contents a manifest may have
          Initial,    \* contents a manifest may have at first
          NoContent,  \* no file, or no hash
          MaxEdits,   \* bound on changes of files
          MaxGitFaults, \* bound on crashes, overflows and failed reads and writes
          MaxRefused  \* bound on applies that do not succeed

ASSUME GitopsAssumption ==
    /\ Files \in Seq(STRING)
    /\ NoContent \notin Contents /\ Initial \subseteq Contents \cup {NoContent}
    /\ MaxEdits \in Nat /\ MaxGitFaults \in Nat /\ MaxRefused \in Nat

VARIABLES disk,       \* the content of each file
          phase,      \* "down", "load", "sync", "watch" or "exited"
          watched,    \* files in directories the notifier was given
          events,     \* notices not yet handled: [file, removed]
          todo,       \* files the first walk has still to visit
          state,      \* Watcher.state: the content last applied, by file
          saved,      \* the same in the state file
          call,       \* the apply under way, none or one: [file, content]
          cancelled,  \* the context was cancelled (SIGINT, SIGTERM)
          accepted,   \* gateway: the content it took last, by file
          tried,      \* the content of the last attempt (a read or an apply) that failed, by file
          unknown,    \* files of which the gateway took a content the state file does not know
          overflowed, \* notices were dropped in this process
          edits, gitFaults, refused

gitVars == <<disk, phase, watched, events, todo, state, saved, call, cancelled, accepted, tried, unknown,
             overflowed, edits, gitFaults, refused>>
process == <<phase, watched, todo, state, saved, call, cancelled>>
gateway == <<accepted, tried, unknown, refused>>

FileSet == ToSet(Files)
Empty == [f \in FileSet |-> NoContent]

GitInit ==
    /\ disk \in [FileSet -> Initial]
    /\ phase = "down" /\ watched = {} /\ events = <<>> /\ todo = <<>>
    /\ state = Empty /\ saved = Empty /\ call = <<>> /\ cancelled = FALSE
    /\ accepted = Empty /\ tried = Empty /\ unknown = {}
    /\ overflowed = FALSE /\ edits = 0 /\ gitFaults = 0 /\ refused = 0

GitFault == gitFaults < MaxGitFaults /\ gitFaults' = gitFaults + 1
Running == phase \in {"load", "sync", "watch"}

-----------------------------------------------------------------------------
(* The user. Only YAML files are looked at; the others are left out.       *)

\* A write, also of a part of the content, a rename or a removal.
Edit(f, c) ==
    /\ edits < MaxEdits /\ edits' = edits + 1
    /\ disk[f] # c
    /\ disk' = [disk EXCEPT ![f] = c]
    /\ events' = IF Running /\ f \in watched THEN Append(events, [file |-> f, removed |-> c = NoContent]) ELSE events
    /\ UNCHANGED <<process, gateway, overflowed, gitFaults>>

\* The queue of the kernel overflows; the error is logged.
Overflow ==
    /\ events # <<>> /\ GitFault
    /\ events' = <<>> /\ overflowed' = TRUE
    /\ UNCHANGED <<disk, process, gateway, edits>>

Cancel ==
    /\ Running /\ ~cancelled
    /\ cancelled' = TRUE
    /\ UNCHANGED <<disk, phase, watched, events, todo, state, saved, call, gateway, overflowed, edits, gitFaults>>

-----------------------------------------------------------------------------
(* The process.                                                            *)

\* The directories that exist, before the first walk; one made later is not watched.
addDirs == {f \in FileSet : f \in Late => disk[f] # NoContent}

Start ==
    /\ phase = "down"
    /\ phase' = "load" /\ watched' = addDirs
    /\ state' = Empty /\ cancelled' = FALSE /\ events' = <<>> /\ overflowed' = FALSE
    /\ UNCHANGED <<disk, todo, saved, call, gateway, edits, gitFaults>>

\* The walk of the first sync meets the manifests that are there when it begins.
Present ==
    LET walk[n \in 0..Len(Files)] ==
            IF n = 0 THEN <<>>
            ELSE IF disk[Files[n]] # NoContent THEN Append(walk[n - 1], Files[n]) ELSE walk[n - 1]
    IN  walk[Len(Files)]

\* No state file is an empty state.
loadState ==
    /\ phase = "load"
    /\ state' = saved
    /\ phase' = "sync" /\ todo' = Present
    /\ UNCHANGED <<disk, watched, events, saved, call, cancelled, gateway, overflowed, edits, gitFaults>>

\* What the gateway took and the state file does not know is forgotten with the
\* process; what is in the state file is known again.
Forgotten(record) == {f \in FileSet : accepted[f] # NoContent /\ record[f] # accepted[f]}

Stops(p, record) ==
    /\ phase' = p /\ call' = <<>> /\ todo' = <<>> /\ events' = <<>>
    /\ unknown' = Forgotten(record)

\* A state file that cannot be read or decoded ends the command.
loadFails ==
    /\ phase = "load" /\ GitFault
    /\ Stops("exited", saved)
    /\ UNCHANGED <<disk, watched, state, saved, cancelled, accepted, tried, refused, overflowed, edits>>

Crash ==
    /\ Running /\ GitFault
    /\ Stops("down", saved)
    /\ UNCHANGED <<disk, watched, state, saved, cancelled, accepted, tried, refused, overflowed, edits>>

\* A file that is gone, and one with the hash on record, is left.
applyFile(f) ==
    call' = IF disk[f] # NoContent /\ state[f] # disk[f] THEN <<[file |-> f, content |-> disk[f]]>> ELSE <<>>

\* A file that is there cannot be read: logged, and looked at again at its next notice.
Unread(f) == GitFault /\ tried' = [tried EXCEPT ![f] = disk[f]]

\* syncAll
SyncFile ==
    /\ phase = "sync" /\ call = <<>> /\ todo # <<>>
    /\ applyFile(Head(todo)) /\ todo' = Tail(todo)
    /\ UNCHANGED <<disk, phase, watched, events, state, saved, cancelled, gateway, overflowed, edits, gitFaults>>

SyncUnread ==
    /\ phase = "sync" /\ call = <<>> /\ todo # <<>>
    /\ Unread(Head(todo)) /\ todo' = Tail(todo)
    /\ UNCHANGED <<disk, phase, watched, events, state, saved, call, cancelled, accepted, unknown, refused,
                   overflowed, edits>>

\* RunSync ends with a saved state, or with the command.
SyncDone ==
    /\ phase = "sync" /\ call = <<>> /\ todo = <<>>
    /\ saved' = state /\ phase' = "watch"
    /\ UNCHANGED <<disk, watched, events, todo, state, call, cancelled, gateway, overflowed, edits, gitFaults>>

SyncSaveFails ==
    /\ phase = "sync" /\ call = <<>> /\ todo = <<>> /\ GitFault
    /\ Stops("exited", saved)
    /\ UNCHANGED <<disk, watched, state, saved, cancelled, accepted, tried, refused, overflowed, edits>>

Changed ==
    /\ phase = "watch" /\ call = <<>> /\ events # <<>> /\ ~Head(events).removed
    /\ applyFile(Head(events).file) /\ events' = Tail(events)
    /\ UNCHANGED <<disk, phase, watched, todo, state, saved, cancelled, gateway, overflowed, edits, gitFaults>>

ChangedUnread ==
    /\ phase = "watch" /\ call = <<>> /\ events # <<>> /\ ~Head(events).removed
    /\ Unread(Head(events).file) /\ events' = Tail(events)
    /\ UNCHANGED <<disk, phase, watched, todo, state, saved, call, cancelled, accepted, unknown, refused,
                   overflowed, edits>>

Removed ==
    /\ phase = "watch" /\ call = <<>> /\ events # <<>> /\ Head(events).removed
    /\ LET s == [state EXCEPT ![Head(events).file] = NoContent] IN
       /\ state' = s
       /\ \/ saved' = s /\ UNCHANGED gitFaults
          \/ UNCHANGED saved /\ GitFault
    /\ events' = Tail(events)
    /\ UNCHANGED <<disk, phase, watched, todo, call, cancelled, gateway, overflowed, edits>>

\* The apply succeeded: recorded and saved; an error of the save is ignored.
Applied ==
    /\ call # <<>> /\ ~cancelled
    /\ LET f == call[1].file
           s == [state EXCEPT ![f] = call[1].content]
       IN  /\ accepted' = [accepted EXCEPT ![f] = call[1].content]
           /\ tried' = [tried EXCEPT ![f] = NoContent] /\ unknown' = unknown \ {f}
           /\ state' = s
           /\ \/ saved' = s /\ UNCHANGED gitFaults
              \/ UNCHANGED saved /\ GitFault
    /\ call' = <<>>
    /\ UNCHANGED <<disk, phase, watched, events, todo, cancelled, refused, overflowed, edits>>

NotApplied(s) ==
    /\ call # <<>>
    /\ IF cancelled THEN UNCHANGED refused ELSE refused < MaxRefused /\ refused' = refused + 1
    /\ tried' = [tried EXCEPT ![call[1].file] = call[1].content]
    /\ state' = s
    /\ call' = <<>>
    /\ UNCHANGED <<disk, phase, watched, events, todo, saved, cancelled, overflowed, edits, gitFaults>>

\* Mutant: the hash is recorded before the outcome is known.
RefusedRecorded ==
    /\ call # <<>> /\ NotApplied([state EXCEPT ![call[1].file] = call[1].content])
    /\ UNCHANGED <<accepted, unknown>>

\* Compile errors, an error of the gateway, a gateway that is not there, a cancelled
\* context: logged, not recorded, and tried again only at the file's next notice.
ApplyFailed == NotApplied(state) /\ UNCHANGED <<accepted, unknown>>

\* The gateway took the manifest and the answer was lost.
AnswerLost ==
    /\ NotApplied(state)
    /\ accepted' = [accepted EXCEPT ![call[1].file] = call[1].content]
    /\ unknown' = unknown \cup {call[1].file}

\* The loop sees the cancelled context: the state is saved, errors ignored.
Stop ==
    /\ phase = "watch" /\ call = <<>> /\ cancelled
    /\ \/ saved' = state /\ UNCHANGED gitFaults
       \/ UNCHANGED saved /\ GitFault
    /\ Stops("down", saved')
    /\ UNCHANGED <<disk, watched, state, cancelled, accepted, tried, refused, overflowed, edits>>

WatcherStep ==
    loadState \/ SyncFile \/ SyncDone \/ Changed \/ Removed \/ Applied \/ ApplyFailed \/ Stop

GitNext ==
    \/ \E f \in FileSet, c \in Contents \cup {NoContent} : Edit(f, c)
    \/ Overflow \/ Cancel \/ Start \/ loadFails \/ Crash \/ SyncSaveFails \/ AnswerLost \/ SyncUnread \/ ChangedUnread
    \/ WatcherStep

\* The process runs and the gateway answers: the client has no timeout of its own.
\* Nothing is assumed of the user.
GitSpec == GitInit /\ [][GitNext]_gitVars /\ WF_gitVars(WatcherStep)

-----------------------------------------------------------------------------
AtRest == phase = "watch" /\ call = <<>> /\ events = <<>> /\ ~cancelled

\* When the watcher rests, every manifest it watches was applied as it is on disk, or
\* the last attempt to read or to apply it failed (nothing retries one). The gateway runs what the record says, except where it
\* took a manifest that the record never learnt of: a lost answer, or an end of the
\* process between the apply and the save.
FilesApplied ==
    (AtRest /\ ~overflowed) =>
        \A f \in watched : disk[f] # NoContent =>
            \/ tried[f] = disk[f]
            \/ state[f] = disk[f] /\ (accepted[f] = disk[f] \/ f \in unknown)

\* Edits, crashes at any point, restarts, lost answers and failed saves leave no
\* manifest behind, and a watcher that runs works off the notices and comes to rest,
\* or stops when it is told to.
WatchConverges == [](FilesApplied /\ <>(Running => AtRest))

=============================================================================
