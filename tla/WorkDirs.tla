------------------------------ MODULE WorkDirs ------------------------------
(* The work directories of worker processes in one workspace on disk         *)
(* (diskutils, with locket's lock files): a process makes a directory with a *)
(* locked file beside it; the next one to come purges the directories whose  *)
(* files nobody has locked any more, because their process has crashed.      *)
EXTENDS Naturals, FiniteSets

CONSTANTS DiskProcs,    \* the processes, each with one WorkSpace
          NoOwner,       \* no process
          MaxDirs,      \* bound: directories made
          MaxCrashes    \* bound: crashes

VARIABLES wdAt,         \* where each process is in new_work_dir or release
          wdOwn,        \* its own directory; 0: none
          wdFound,      \* the candidates it has still to check
          wdHandle,     \* the lock files it has open: path -> the file's generation
          wdLocked,     \* the lock files it has locked, of its open ones
          wdDirs,       \* the directories on disk
          wdUnremoved,  \* those whose removal has failed
          wdFile,       \* the lock file at each path, by its generation; 0: none
          wdGens,       \* generations made so far at each path
          wdHolder,     \* who has locked global.lock and purge.lock
          wdMade, wdCrashes, wdOnceLocked

wdVars == <<wdAt, wdOwn, wdFound, wdHandle, wdLocked, wdDirs, wdUnremoved, wdFile, wdGens, wdHolder,
            wdMade, wdCrashes, wdOnceLocked>>
dirs == <<wdDirs, wdUnremoved>>
disk == <<dirs, wdFile, wdGens>>
bounds == <<wdMade, wdCrashes, wdOnceLocked>>
Names == 1..MaxDirs

(* A Python process has each lock file open once (lock_file's _locks).       *)
WdInit ==
    /\ wdAt = [p \in DiskProcs |-> "idle"] /\ wdOwn = [p \in DiskProcs |-> 0]
    /\ wdFound = [p \in DiskProcs |-> {}]
    /\ wdHandle = [p \in DiskProcs |-> [d \in Names |-> 0]] /\ wdLocked = [p \in DiskProcs |-> {}]
    /\ wdDirs = {} /\ wdUnremoved = {} /\ wdFile = [d \in Names |-> 0] /\ wdGens = [d \in Names |-> 0]
    /\ wdHolder = [f \in {"global", "purge"} |-> NoOwner]
    /\ wdMade = 0 /\ wdCrashes = 0 /\ wdOnceLocked = {}

WdGoes(p, from, to) == wdAt[p] = from /\ wdAt' = [wdAt EXCEPT ![p] = to]
-----------------------------------------------------------------------------
(* _LockFile.acquire: open the file, which makes it if it is not there, ...  *)
OpenFile(p, d) ==
    LET gen == IF wdFile[d] = 0 THEN wdGens[d] + 1 ELSE wdFile[d]
    IN  /\ wdFile' = [wdFile EXCEPT ![d] = gen] /\ wdHandle' = [wdHandle EXCEPT ![p][d] = gen]
        /\ wdGens' = [wdGens EXCEPT ![d] = IF gen > @ THEN gen ELSE @]
(* ... and lock it: the lock is one of the open file, whatever is now at the *)
(* path.                                                                     *)
IsLocked(p, d) ==
    \E q \in DiskProcs \ {p} : d \in wdLocked[q] /\ wdHandle[q][d] = wdHandle[p][d]
CloseFile(p, d) == [wdHandle EXCEPT ![p][d] = 0]
-----------------------------------------------------------------------------
(* new_work_dir, _purge_leftovers: candidates are listed with the global     *)
(* lock taken; if someone has it, nothing is purged.                         *)
ListUnlocked(p) == TRUE  \* mistake: the global lock is not asked for
ListLock(p) == wdHolder["global"] = NoOwner
NewWorkDir(p) ==
    /\ wdAt[p] = "idle" /\ wdMade < MaxDirs
    /\ IF ListLock(p)
       THEN wdAt' = [wdAt EXCEPT ![p] = "list"] /\ wdHolder' = [wdHolder EXCEPT !["global"] = p]
       ELSE wdAt' = [wdAt EXCEPT ![p] = "mkdir"] /\ UNCHANGED wdHolder
    /\ UNCHANGED <<wdOwn, wdFound, wdHandle, wdLocked, disk, bounds>>
(* _list_unknown_locks *)
ListLocks(p) ==
    /\ WdGoes(p, "list", "purge") /\ wdHolder' = [wdHolder EXCEPT !["global"] = NoOwner]
    /\ wdFound' = [wdFound EXCEPT ![p] = {d \in Names : wdFile[d] # 0}]
    /\ UNCHANGED <<wdOwn, wdHandle, wdLocked, disk, bounds>>
PurgeBegin(p) ==
    /\ wdAt[p] = "purge"
    /\ IF wdHolder["purge"] = NoOwner
       THEN wdAt' = [wdAt EXCEPT ![p] = "check"] /\ wdHolder' = [wdHolder EXCEPT !["purge"] = p]
       ELSE wdAt' = [wdAt EXCEPT ![p] = "mkdir"] /\ UNCHANGED wdHolder
    /\ UNCHANGED <<wdOwn, wdFound, wdHandle, wdLocked, disk, bounds>>

(* _check_lock_or_purge *)
CheckOpen(p, d) ==
    /\ d \in wdFound[p] /\ WdGoes(p, "check", "try") /\ OpenFile(p, d)
    /\ UNCHANGED <<wdOwn, wdFound, wdLocked, dirs, wdHolder, bounds>>
Checked(p) == CHOOSE d \in wdFound[p] : wdHandle[p][d] # 0
CheckLock(p) ==
    /\ wdAt[p] = "try"
    /\ IF IsLocked(p, Checked(p))
       THEN /\ wdAt' = [wdAt EXCEPT ![p] = "check"] /\ wdHandle' = CloseFile(p, Checked(p))
            /\ wdFound' = [wdFound EXCEPT ![p] = @ \ {Checked(p)}] /\ UNCHANGED wdLocked
       ELSE /\ wdAt' = [wdAt EXCEPT ![p] = "stale"]
            /\ wdLocked' = [wdLocked EXCEPT ![p] = @ \cup {Checked(p)}] /\ UNCHANGED <<wdFound, wdHandle>>
    /\ UNCHANGED <<wdOwn, disk, wdHolder, bounds>>
(* _purge_directory: that rmtree fails is logged, and nothing else; the lock *)
(* is released and its file removed all the same.                            *)
RemoveTree(d) ==
    \/ wdDirs' = wdDirs \ {d} /\ UNCHANGED wdUnremoved
    \/ d \in wdDirs /\ wdUnremoved' = wdUnremoved \cup {d} /\ UNCHANGED wdDirs
PurgeDirectory(p) ==
    /\ WdGoes(p, "stale", "purged") /\ RemoveTree(Checked(p))
    /\ UNCHANGED <<wdOwn, wdFound, wdHandle, wdLocked, wdFile, wdGens, wdHolder, bounds>>
(* The lock file is removed after it has been unlocked.                      *)
PurgeUnlock(p) ==
    /\ WdGoes(p, "purged", "unlink") /\ wdLocked' = [wdLocked EXCEPT ![p] = @ \ {Checked(p)}]
    /\ UNCHANGED <<wdOwn, wdFound, wdHandle, disk, wdHolder, bounds>>
PurgeUnlink(p) ==
    /\ WdGoes(p, "unlink", "check") /\ wdFile' = [wdFile EXCEPT ![Checked(p)] = 0]
    /\ wdHandle' = CloseFile(p, Checked(p)) /\ wdFound' = [wdFound EXCEPT ![p] = @ \ {Checked(p)}]
    /\ UNCHANGED <<wdOwn, wdLocked, dirs, wdGens, wdHolder, bounds>>
PurgeEnd(p) ==
    /\ wdFound[p] = {} /\ WdGoes(p, "check", "mkdir")
    /\ wdHolder' = [wdHolder EXCEPT !["purge"] = NoOwner]
    /\ UNCHANGED <<wdOwn, wdFound, wdHandle, wdLocked, disk, bounds>>
-----------------------------------------------------------------------------
(* WorkDir.__init__: a directory with a new name; its file is made and       *)
(* locked with the global lock taken.                                        *)
MakeDir(p) ==
    /\ wdMade < MaxDirs /\ WdGoes(p, "mkdir", "global") /\ wdMade' = wdMade + 1
    /\ wdOwn' = [wdOwn EXCEPT ![p] = wdMade'] /\ wdDirs' = wdDirs \cup {wdMade'}
    /\ UNCHANGED <<wdFound, wdHandle, wdLocked, wdUnremoved, wdFile, wdGens, wdHolder, wdCrashes, wdOnceLocked>>
TakeGlobal(p) ==
    /\ wdHolder["global"] = NoOwner /\ WdGoes(p, "global", "open")
    /\ wdHolder' = [wdHolder EXCEPT !["global"] = p]
    /\ UNCHANGED <<wdOwn, wdFound, wdHandle, wdLocked, disk, bounds>>
MakeFile(p) ==
    /\ WdGoes(p, "open", "lock") /\ OpenFile(p, wdOwn[p])
    /\ UNCHANGED <<wdOwn, wdFound, wdLocked, dirs, wdHolder, bounds>>
LockFile(p) ==
    /\ ~IsLocked(p, wdOwn[p]) /\ WdGoes(p, "lock", "working")
    /\ wdLocked' = [wdLocked EXCEPT ![p] = {wdOwn[p]}]
    /\ wdHolder' = [wdHolder EXCEPT !["global"] = NoOwner]
    /\ wdOnceLocked' = wdOnceLocked \cup {wdOwn[p]}
    /\ UNCHANGED <<wdOwn, wdFound, wdHandle, disk, wdMade, wdCrashes>>

(* WorkDir._finalize: the directory, the lock, the lock file.                *)
ReleaseDir(p) ==
    /\ WdGoes(p, "working", "removed") /\ RemoveTree(wdOwn[p])
    /\ UNCHANGED <<wdOwn, wdFound, wdHandle, wdLocked, wdFile, wdGens, wdHolder, bounds>>
ReleaseLock(p) ==
    /\ WdGoes(p, "removed", "unlocked") /\ wdLocked' = [wdLocked EXCEPT ![p] = {}]
    /\ wdHandle' = CloseFile(p, wdOwn[p])
    /\ UNCHANGED <<wdOwn, wdFound, disk, wdHolder, bounds>>
ReleaseFile(p) ==
    /\ WdGoes(p, "unlocked", "idle") /\ wdFile' = [wdFile EXCEPT ![wdOwn[p]] = 0]
    /\ wdOwn' = [wdOwn EXCEPT ![p] = 0]
    /\ UNCHANGED <<wdFound, wdHandle, wdLocked, dirs, wdGens, wdHolder, bounds>>
FileFirst(p) ==  \* mistake: the lock file goes before the directory
    /\ WdGoes(p, "working", "removed") /\ wdFile' = [wdFile EXCEPT ![wdOwn[p]] = 0]
    /\ UNCHANGED <<wdOwn, wdFound, wdHandle, wdLocked, dirs, wdGens, wdHolder, bounds>>
Finalize(p) == ReleaseDir(p)

(* The process dies; the system unlocks what it has locked.  A new process   *)
(* takes its place.                                                          *)
CrashOf(p) ==
    /\ wdAt[p] # "idle" /\ wdCrashes < MaxCrashes /\ wdCrashes' = wdCrashes + 1
    /\ wdAt' = [wdAt EXCEPT ![p] = "idle"] /\ wdOwn' = [wdOwn EXCEPT ![p] = 0]
    /\ wdFound' = [wdFound EXCEPT ![p] = {}] /\ wdLocked' = [wdLocked EXCEPT ![p] = {}]
    /\ wdHandle' = [wdHandle EXCEPT ![p] = [d \in Names |-> 0]]
    /\ wdHolder' = [f \in DOMAIN wdHolder |-> IF wdHolder[f] = p THEN NoOwner ELSE wdHolder[f]]
    /\ UNCHANGED <<disk, wdMade, wdOnceLocked>>

WdNext ==
    \E p \in DiskProcs :
        \/ NewWorkDir(p) \/ ListLocks(p) \/ PurgeBegin(p) \/ (\E d \in Names : CheckOpen(p, d))
        \/ CheckLock(p) \/ PurgeDirectory(p) \/ PurgeUnlock(p) \/ PurgeUnlink(p) \/ PurgeEnd(p)
        \/ MakeDir(p) \/ TakeGlobal(p) \/ MakeFile(p) \/ LockFile(p)
        \/ Finalize(p) \/ ReleaseLock(p) \/ ReleaseFile(p) \/ CrashOf(p)
-----------------------------------------------------------------------------
(* A worker that works has its directory, and the file at the lock's path is *)
(* the one it has locked: nobody takes the directory for a left one.         *)
LiveDirsKept ==
    \A p \in DiskProcs : wdAt[p] = "working" =>
        wdOwn[p] \in wdDirs /\ wdFile[wdOwn[p]] = wdHandle[p][wdOwn[p]]

(* A directory that was locked once is found by those that purge as long as  *)
(* it exists, whoever crashed while making, releasing or purging it: unless  *)
(* someone could not remove it, who has left it behind without a lock file.  *)
LeftDirsFound == \A d \in (wdDirs \cap wdOnceLocked) \ wdUnremoved : wdFile[d] # 0
=============================================================================
