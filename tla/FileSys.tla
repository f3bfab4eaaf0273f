------------------------------ MODULE FileSys ------------------------------
(***************************************************************************)
(* Inodes, directories and path names (fs.c), the system calls on them     *)
(* (sysfile.c), and the open files that keep inodes alive (file.c).        *)
(*                                                                         *)
(* Processes run their calls concurrently and lock one inode at a time, or *)
(* a directory and then an entry of it.  Work on a locked inode that only  *)
(* touches that inode is one action from ilock() to iunlock(); the lock is *)
(* visible (busy) where the code keeps it while it waits for another one   *)
(* or drops a reference.  iput() is a step of its own, and three when it   *)
(* frees the inode, since it gives up icache.lock on the way.              *)
(*                                                                         *)
(* The inode cache has an entry for every inode; a transaction of the log  *)
(* is not visible here (module Log).                                       *)
(***************************************************************************)
EXTENDS Naturals, Sequences, FiniteSets, TLC

CONSTANTS
  Proc, NoProc,
  First,      \* the process that runs first; it forks the others
  NINODES,    \* sb.ninodes: inode 0 is not used
  Name,       \* names of directory entries
  Calls,      \* the calls that processes make: [op, path], and to in a link
  NFILE,      \* param.h: open files in the system
  NOFILE      \* param.h: open files of a process

Inum == 1 .. NINODES - 1
ROOTINO == 1
File == 1 .. NFILE
Fd == 1 .. NOFILE
Entry == Name \cup {".", ".."}

ASSUME FileSysAssumption ==
  /\ NoProc \notin Proc /\ First \in Proc /\ NINODES \in Nat \ {0, 1}
  /\ NFILE \in Nat /\ NOFILE \in Nat /\ {".", ".."} \cap Name = {}

VARIABLES
  dinode,  \* on disk: type ("none" if free) and nlink of every inode
  dir,     \* on disk: the entries of a directory; 0 is an empty one
  ic,      \* struct inode: ref, busy (the process that locked it), valid,
           \* and the copies of type and nlink
  th,      \* of a process: pc, the call it makes, the path it still has to
           \* walk, the inodes it has a reference to (cur in namex(), dp and
           \* ip in the call), and those it is about to iput()
  cwd,     \* proc->cwd, or 0 if the process does not exist
  ofile,   \* proc->ofile
  ftable   \* struct file: ref and ip

disk == <<dinode, dir>>
files == <<cwd, ofile, ftable>>
vars == <<disk, ic, th, files>>

NoEntries == [n \in Entry |-> 0]
Empty == [ref |-> 0, busy |-> NoProc, valid |-> FALSE, type |-> "none", nlink |-> 0]
Idle == [pc |-> "user", op |-> "none", path |-> <<>>, cur |-> 0, dp |-> 0, ip |-> 0,
         to |-> <<>>, puts |-> <<>>, freeing |-> FALSE]

\* mkfs makes the root directory; userinit() calls namei("/").
Init ==
  /\ dinode = [i \in Inum |-> IF i = ROOTINO THEN [type |-> "dir", nlink |-> 1]
                              ELSE [type |-> "none", nlink |-> 0]]
  /\ dir = [i \in Inum |-> IF i = ROOTINO
                           THEN [NoEntries EXCEPT !["."] = ROOTINO, ![".."] = ROOTINO]
                           ELSE NoEntries]
  /\ ic = [i \in Inum |-> IF i = ROOTINO THEN [Empty EXCEPT !.ref = 1] ELSE Empty]
  /\ th = [p \in Proc |-> Idle]
  /\ cwd = [p \in Proc |-> IF p = First THEN ROOTINO ELSE 0]
  /\ ofile = [p \in Proc |-> [fd \in Fd |-> 0]]
  /\ ftable = [f \in File |-> [ref |-> 0, ip |-> 0]]

\* p is at l of its call, and has no reference left to drop.
At(p, l) == th[p].pc = l /\ th[p].puts = <<>>

\* p goes on with the given parts of its state.
Go(p, r) == th' = [th EXCEPT ![p] = r @@ @]

\* The end of a call: the references in s are dropped.
End(p, s) == Go(p, [Idle EXCEPT !.puts = s])

Panic(p) == Go(p, [pc |-> "panic"]) /\ UNCHANGED <<disk, ic, files>>

-----------------------------------------------------------------------------
(* The inode cache: operators on ic *)

Iget(c, i) == [c EXCEPT ![i].ref = @ + 1]

CanLock(i) == ic[i].busy = NoProc

\* ilock(): read the inode if need be.
Ilock(c, p, i) ==
  [c EXCEPT ![i] = [(IF @.valid THEN @ ELSE [valid |-> TRUE] @@ dinode[i] @@ @)
                    EXCEPT !.busy = p]]

\* ilock() would panic: the inode on disk is free.
NoType(i) == ~ic[i].valid /\ dinode[i].type = "none"

Iunlock(c, i) == [c EXCEPT ![i].busy = NoProc]

\* ilock() and iunlock() with nothing written between.
Visit(i) == [ic EXCEPT ![i] = IF @.valid THEN @ ELSE [valid |-> TRUE] @@ dinode[i] @@ @]

\* Change nlink of a locked inode; iupdate() copies the inode to disk.
SetNlink(c, i, k) == [c EXCEPT ![i].nlink = k]
Iupdate(c, i) == [dinode EXCEPT ![i] = [type |-> c[i].type, nlink |-> c[i].nlink]]

\* Mutant: the link count is not looked at.
LastPut_AnyLink(i) == ic[i].ref = 1 /\ ic[i].valid

\* Mutant: other references are not looked at.
LastPut_AnyRef(i) == ic[i].valid /\ ic[i].nlink = 0

\* Mutant: only an inode nobody holds is freed.
LastPut_NoRef(i) == ic[i].ref = 0 /\ ic[i].valid /\ ic[i].nlink = 0

\* Last reference, no links: free the inode.
LastPut(i) == ic[i].ref = 1 /\ ic[i].valid /\ ic[i].nlink = 0

Put(p) == Head(th[p].puts)

Iput(p) ==
  /\ th[p].puts # <<>> /\ ~th[p].freeing
  /\ ~LastPut(Put(p))
  /\ ic' = [ic EXCEPT ![Put(p)] = IF @.ref = 1 THEN Empty ELSE [@ EXCEPT !.ref = @ - 1]]
  /\ Go(p, [puts |-> Tail(th[p].puts)])
  /\ UNCHANGED <<disk, files>>

IputLast(p) ==
  /\ th[p].puts # <<>> /\ ~th[p].freeing
  /\ LastPut(Put(p))
  /\ IF ic[Put(p)].busy # NoProc THEN Panic(p)
     ELSE /\ ic' = [ic EXCEPT ![Put(p)].busy = p]
          /\ Go(p, [freeing |-> TRUE])
          /\ UNCHANGED <<disk, files>>

\* itrunc(), type = 0, iupdate()
IputFree(p) ==
  LET i == Put(p) IN
  /\ th[p].freeing /\ ic[i].type # "none"
  /\ ic' = [ic EXCEPT ![i].type = "none"]
  /\ dinode' = Iupdate(ic', i)
  /\ dir' = [dir EXCEPT ![i] = NoEntries]
  /\ UNCHANGED <<th, files>>

\* Mutant: the flags are not cleared.
Forget_Valid(i) == [ic EXCEPT ![i].ref = @ - 1, ![i].busy = NoProc]

\* flags = 0 and ref--; the inode may have been allocated again meanwhile.
Forget(i) ==
  [ic EXCEPT ![i] = [Empty EXCEPT !.ref = ic[i].ref - 1]]

IputDone(p) ==
  /\ th[p].freeing /\ ic[Put(p)].type = "none"
  /\ ic' = Forget(Put(p))
  /\ Go(p, [puts |-> Tail(th[p].puts), freeing |-> FALSE])
  /\ UNCHANGED <<disk, files>>

-----------------------------------------------------------------------------
(* Path names: namex() for the call at pc *)

\* The first inode of a path: the root, or the current directory.
Start(path, p) == IF path[1] = "/" THEN ROOTINO ELSE cwd[p]
Elements(path) == IF path[1] = "/" THEN Tail(path) ELSE path

\* Where a call goes with the result of namex().
After == [namei_link |-> "link", namei_open |-> "open", namei_chdir |-> "chdir",
          parent_link |-> "link_dir", parent_unlink |-> "unlink",
          parent_create |-> "create"]
Parent(p) == th[p].pc \in {"parent_link", "parent_unlink", "parent_create"}
InNamex(p) == th[p].pc \in DOMAIN After /\ th[p].puts = <<>>

\* namex() returns 0 after it has dropped the inodes in s.
NamexFail(p, s) ==
  IF th[p].pc = "parent_link" THEN Go(p, [pc |-> "link_bad", cur |-> 0, puts |-> s])
  ELSE End(p, s)

\* dirlookup(): the inode that the entry names, or 0.
Dirlookup(d, n) == dir[d][n]

\* One turn of the loop of namex().
Namex(p) ==
  LET i == th[p].cur
      path == th[p].path
      next == Dirlookup(i, Head(path))
  IN  /\ InNamex(p) /\ path # <<>> /\ CanLock(i)
      /\ IF NoType(i) THEN Panic(p)
         ELSE /\ UNCHANGED <<disk, files>>
              /\ \/ /\ Visit(i)[i].type = "dir" /\ Parent(p) /\ Len(path) = 1
                    /\ ic' = Visit(i)
                    /\ Go(p, [pc |-> After[th[p].pc], cur |-> 0, dp |-> i])
                 \/ /\ Visit(i)[i].type = "dir" /\ ~(Parent(p) /\ Len(path) = 1)
                    /\ next # 0
                    /\ ic' = Iget(Visit(i), next)
                    /\ Go(p, [cur |-> next, path |-> Tail(path), puts |-> <<i>>])
                 \/ /\ \/ Visit(i)[i].type # "dir"
                       \/ next = 0 /\ ~(Parent(p) /\ Len(path) = 1)
                    /\ ic' = Visit(i)
                    /\ NamexFail(p, <<i>>)

NamexEnd(p) ==
  /\ InNamex(p) /\ th[p].path = <<>>
  /\ UNCHANGED <<disk, ic, files>>
  /\ IF Parent(p) THEN NamexFail(p, <<th[p].cur>>)
     ELSE Go(p, [pc |-> After[th[p].pc], cur |-> 0, ip |-> th[p].cur])

-----------------------------------------------------------------------------
(* sysfile.c *)

\* A process enters a call that takes a path.  open() of a directory for
\* writing fails (op "write"); mkdir(), mknod() and open(O_CREATE) create.
Enter == [link |-> "namei_link", open |-> "namei_open", write |-> "namei_open",
          chdir |-> "namei_chdir", unlink |-> "parent_unlink",
          dir |-> "parent_create", dev |-> "parent_create", file |-> "parent_create"]

Syscall(p) ==
  /\ At(p, "user") /\ cwd[p] # 0
  /\ \E c \in Calls :
       /\ ic' = Iget(ic, Start(c.path, p))
       /\ Go(p, [pc |-> Enter[c.op], op |-> c.op, cur |-> Start(c.path, p),
                 path |-> Elements(c.path), to |-> c.to])
  /\ UNCHANGED <<disk, files>>

\* Mutant: the link is counted after the entry is made.
Raised_Late(k) == k

Raised(k) == k + 1

\* sys_link() with namei(old) up to the start of nameiparent(new).
Link(p) ==
  LET i == th[p].ip
      c == SetNlink(Ilock(ic, p, i), i, Raised(Visit(i)[i].nlink))
      to == th[p].to
  IN  /\ At(p, "link") /\ CanLock(i)
      /\ IF NoType(i) THEN Panic(p)
         ELSE /\ UNCHANGED <<dir, files>>
              /\ IF Visit(i)[i].type = "dir"
                 THEN ic' = Visit(i) /\ End(p, <<i>>) /\ UNCHANGED dinode
                 ELSE /\ dinode' = Iupdate(c, i)
                      /\ ic' = Iget(Iunlock(c, i), Start(to, p))
                      /\ Go(p, [pc |-> "parent_link", cur |-> Start(to, p), path |-> Elements(to)])

Last(p) == Head(th[p].path)

\* The entries after dirlink(), which fails if the name is there.
Dirlink(d, n, i) == [dir EXCEPT ![d][n] = i]

LinkDir(p) ==
  LET d == th[p].dp IN
  /\ At(p, "link_dir") /\ CanLock(d)
  /\ IF NoType(d) THEN Panic(p)
     ELSE /\ ic' = Visit(d)
          /\ IF Dirlookup(d, Last(p)) # 0
             THEN Go(p, [pc |-> "link_bad", dp |-> 0, puts |-> <<d>>]) /\ UNCHANGED dir
             ELSE End(p, <<d, th[p].ip>>) /\ dir' = Dirlink(d, Last(p), th[p].ip)
          /\ UNCHANGED <<dinode, files>>

LinkBad(p) ==
  LET i == th[p].ip
      c == SetNlink(Ilock(ic, p, i), i, Visit(i)[i].nlink - 1)
  IN  /\ At(p, "link_bad") /\ CanLock(i)
      /\ IF NoType(i) THEN Panic(p)
         ELSE /\ dinode' = Iupdate(c, i)
              /\ ic' = Iunlock(c, i)
              /\ End(p, <<i>>)
              /\ UNCHANGED <<dir, files>>

\* Mutant: "." and ".." are not excluded.
IsDot_None(n) == FALSE

IsDot(n) == n \in {".", ".."}

\* sys_unlink() until it waits for the entry's inode.
Unlink(p) ==
  LET d == th[p].dp
      i == Dirlookup(d, Last(p))
  IN  /\ At(p, "unlink") /\ CanLock(d)
      /\ IF NoType(d) THEN Panic(p)
         ELSE /\ IF IsDot(Last(p)) \/ i = 0 THEN ic' = Visit(d) /\ End(p, <<d>>)
                 ELSE ic' = Iget(Ilock(ic, p, d), i) /\ Go(p, [pc |-> "unlink_ip", ip |-> i])
              /\ UNCHANGED <<disk, files>>

IsDirEmpty(i) == \A n \in Name : dir[i][n] = 0

UnlinkIp(p) ==
  LET d == th[p].dp
      i == th[p].ip
      c == Ilock(ic, p, i)
      isdir == c[i].type = "dir"
      c2 == IF isdir THEN SetNlink(c, d, c[d].nlink - 1) ELSE c
  IN  /\ At(p, "unlink_ip") /\ CanLock(i)
      /\ IF NoType(i) \/ c[i].nlink < 1 THEN Panic(p)
         ELSE /\ UNCHANGED files
              /\ IF isdir /\ ~IsDirEmpty(i)
                 THEN /\ ic' = Visit(i)
                      /\ Go(p, [pc |-> "unlink_bad", ip |-> 0, puts |-> <<i>>])
                      /\ UNCHANGED disk
                 ELSE /\ dir' = [dir EXCEPT ![d][Last(p)] = 0]
                      /\ ic' = Iunlock(c2, d)
                      /\ dinode' = IF isdir THEN Iupdate(c2, d) ELSE dinode
                      /\ Go(p, [pc |-> "unlink_dec", dp |-> 0, puts |-> <<d>>])

UnlinkDec(p) ==
  LET i == th[p].ip
      c == SetNlink(ic, i, ic[i].nlink - 1)
  IN  /\ At(p, "unlink_dec")
      /\ dinode' = Iupdate(c, i)
      /\ ic' = Iunlock(c, i)
      /\ End(p, <<i>>)
      /\ UNCHANGED <<dir, files>>

UnlinkBad(p) ==
  /\ At(p, "unlink_bad")
  /\ ic' = Iunlock(ic, th[p].dp)
  /\ End(p, <<th[p].dp>>)
  /\ UNCHANGED <<disk, files>>

-----------------------------------------------------------------------------
(* create(), as called by sys_open(), sys_mkdir() and sys_mknod() *)

\* ialloc() takes the first free inode it meets; one before it may be freed
\* after the scan has passed.
Create(p) ==
  LET d == th[p].dp
      i == Dirlookup(d, Last(p))
      free == {k \in Inum : dinode[k].type = "none"}
  IN  /\ At(p, "create") /\ CanLock(d)
      /\ IF NoType(d) THEN Panic(p)
         ELSE /\ UNCHANGED <<dir, files>>
              /\ \/ /\ i # 0
                    /\ ic' = Iget(Visit(d), i)
                    /\ Go(p, [pc |-> "create_found", dp |-> 0, ip |-> i, puts |-> <<d>>])
                    /\ UNCHANGED dinode
                 \/ /\ i = 0 /\ free = {}
                    /\ ic' = Ilock(ic, p, d)
                    /\ Go(p, [pc |-> "no_inodes"]) /\ UNCHANGED dinode
                 \/ \E k \in free :
                      /\ i = 0
                      /\ ic' = Ilock(ic, p, d)
                      /\ dinode' = [dinode EXCEPT ![k] = [type |-> th[p].op, nlink |-> 0]]
                      /\ Go(p, [pc |-> "create_iget", ip |-> k])

CreateFound(p) ==
  LET i == th[p].ip IN
  /\ At(p, "create_found") /\ CanLock(i)
  /\ IF NoType(i) THEN Panic(p)
     ELSE /\ IF th[p].op = "file" /\ Visit(i)[i].type = "file"
             THEN ic' = Ilock(ic, p, i) /\ Go(p, [pc |-> "opened"])
             ELSE ic' = Visit(i) /\ End(p, <<i>>)
          /\ UNCHANGED <<disk, files>>

\* The end of ialloc().
CreateIget(p) ==
  /\ At(p, "create_iget")
  /\ ic' = Iget(ic, th[p].ip)
  /\ Go(p, [pc |-> "create_init"])
  /\ UNCHANGED <<disk, files>>

CreateInit(p) ==
  LET d == th[p].dp
      i == th[p].ip
      isdir == th[p].op = "dir"
      c == SetNlink(Ilock(ic, p, i), i, 1)
      c2 == IF isdir THEN SetNlink(c, d, c[d].nlink + 1) ELSE c
  IN  /\ At(p, "create_init") /\ CanLock(i)
      /\ IF NoType(i) THEN Panic(p)
         ELSE /\ dinode' = [Iupdate(c2, i) EXCEPT ![d].nlink = c2[d].nlink]
              /\ dir' = [dir EXCEPT ![d][Last(p)] = i,
                                    ![i]["."] = IF isdir THEN i ELSE 0,
                                    ![i][".."] = IF isdir THEN d ELSE 0]
              /\ ic' = Iunlock(c2, d)
              /\ Go(p, [pc |-> IF th[p].op = "file" THEN "opened" ELSE "made",
                        dp |-> 0, puts |-> <<d>>])
              /\ UNCHANGED files

\* sys_mkdir() and sys_mknod() unlock what they made.
Made(p) ==
  /\ At(p, "made")
  /\ ic' = Iunlock(ic, th[p].ip)
  /\ End(p, <<th[p].ip>>)
  /\ UNCHANGED <<disk, files>>

-----------------------------------------------------------------------------
(* Open files *)

FreeFiles == {f \in File : ftable[f].ref = 0}
FreeFds(p) == {fd \in Fd : ofile[p][fd] = 0}
Least(S) == CHOOSE x \in S : \A y \in S : x <= y

Open(p) ==
  LET i == th[p].ip IN
  /\ At(p, "open") /\ CanLock(i)
  /\ IF NoType(i) THEN Panic(p)
     ELSE /\ IF Visit(i)[i].type = "dir" /\ th[p].op = "write"
             THEN ic' = Visit(i) /\ End(p, <<i>>)
             ELSE ic' = Ilock(ic, p, i) /\ Go(p, [pc |-> "opened"])
          /\ UNCHANGED <<disk, files>>

\* filealloc() and fdalloc(); the file takes over the reference to the inode.
Opened(p) ==
  LET i == th[p].ip IN
  /\ At(p, "opened")
  /\ ic' = Iunlock(ic, i)
  /\ IF FreeFiles = {} \/ FreeFds(p) = {} THEN End(p, <<i>>) /\ UNCHANGED files
     ELSE /\ ftable' = [ftable EXCEPT ![Least(FreeFiles)] = [ref |-> 1, ip |-> i]]
          /\ ofile' = [ofile EXCEPT ![p][Least(FreeFds(p))] = Least(FreeFiles)]
          /\ End(p, <<>>)
          /\ UNCHANGED cwd
  /\ UNCHANGED disk

Chdir(p) ==
  LET i == th[p].ip IN
  /\ At(p, "chdir") /\ CanLock(i)
  /\ IF NoType(i) THEN Panic(p)
     ELSE /\ ic' = Visit(i)
          /\ IF Visit(i)[i].type # "dir" THEN End(p, <<i>>) /\ UNCHANGED cwd
             ELSE End(p, <<cwd[p]>>) /\ cwd' = [cwd EXCEPT ![p] = i]
          /\ UNCHANGED <<disk, ofile, ftable>>

Filedup(f) == [ftable EXCEPT ![f].ref = @ + 1]

Dup(p) ==
  /\ At(p, "user") /\ FreeFds(p) # {}
  /\ \E fd \in Fd \ FreeFds(p) :
       /\ ofile' = [ofile EXCEPT ![p][Least(FreeFds(p))] = ofile[p][fd]]
       /\ ftable' = Filedup(ofile[p][fd])
  /\ UNCHANGED <<disk, ic, th, cwd>>

\* Mutant: any close() of a file closes it.
Fileclose_Any(f) == [ref |-> 0, ip |-> 0]

Fileclose(f) == IF ftable[f].ref = 1 THEN [ref |-> 0, ip |-> 0]
                ELSE [ftable[f] EXCEPT !.ref = @ - 1]

CloseFd(p, fd) ==
  LET f == ofile[p][fd] IN
  /\ ofile' = [ofile EXCEPT ![p][fd] = 0]
  /\ ftable' = [ftable EXCEPT ![f] = Fileclose(f)]
  /\ Go(p, [puts |-> IF ftable'[f].ref = 0 THEN <<ftable[f].ip>> ELSE <<>>])
  /\ UNCHANGED <<disk, ic, cwd>>

Close(p) == At(p, "user") /\ \E fd \in Fd \ FreeFds(p) : CloseFd(p, fd)

\* fileread(), filewrite(), filestat() as far as the inode cache sees them.
Access(p) ==
  /\ At(p, "user")
  /\ \E fd \in Fd \ FreeFds(p) :
       LET i == ftable[ofile[p][fd]].ip IN
       CanLock(i) /\ IF NoType(i) THEN Panic(p)
                     ELSE ic' = Visit(i) /\ UNCHANGED <<disk, th, files>>

\* fork(): the child shares the open files and the current directory.
Fork(p, q) ==
  /\ At(p, "user") /\ cwd[p] # 0 /\ th[q] = Idle /\ cwd[q] = 0
  /\ cwd' = [cwd EXCEPT ![q] = cwd[p]]
  /\ ofile' = [ofile EXCEPT ![q] = ofile[p]]
  /\ ftable' = [f \in File |->
       [ftable[f] EXCEPT !.ref = @ + Cardinality({fd \in Fd : ofile[p][fd] = f})]]
  /\ ic' = Iget(ic, cwd[p])
  /\ UNCHANGED <<disk, th>>

\* exit(): close the files in order, then leave the current directory.
Exit(p) ==
  /\ At(p, "user") /\ cwd[p] # 0 /\ p # First
  /\ Go(p, [pc |-> "exit"])
  /\ UNCHANGED <<disk, ic, files>>

ExitClose(p) ==
  /\ At(p, "exit")
  /\ IF FreeFds(p) # Fd THEN CloseFd(p, Least(Fd \ FreeFds(p)))
     ELSE /\ End(p, <<cwd[p]>>)
          /\ cwd' = [cwd EXCEPT ![p] = 0]
          /\ UNCHANGED <<disk, ic, ofile, ftable>>

\* panic() stops the machine.
Halted == \E p \in Proc : th[p].pc \in {"panic", "no_inodes"}

Step(p) ==
  \/ Iput(p) \/ IputLast(p) \/ IputFree(p) \/ IputDone(p) \/ Namex(p) \/ NamexEnd(p)
  \/ Syscall(p) \/ Link(p) \/ LinkDir(p) \/ LinkBad(p)
  \/ Unlink(p) \/ UnlinkIp(p) \/ UnlinkDec(p) \/ UnlinkBad(p)
  \/ Create(p) \/ CreateFound(p) \/ CreateIget(p) \/ CreateInit(p) \/ Made(p)
  \/ Open(p) \/ Opened(p) \/ Chdir(p) \/ Dup(p) \/ Close(p) \/ Access(p)
  \/ Exit(p) \/ ExitClose(p)
  \/ \E q \in Proc : Fork(p, q)

Next == IF Halted THEN UNCHANGED vars ELSE \E p \in Proc : Step(p)

Spec == Init /\ [][Next]_vars

-----------------------------------------------------------------------------
(* Properties *)

\* The variables have their types.
TypeOK ==
  /\ dinode \in [Inum -> [type : {"none", "dir", "file", "dev"}, nlink : Nat]]
  /\ dir \in [Inum -> [Entry -> Inum \cup {0}]]
  /\ ic \in [Inum -> [ref : Nat, busy : Proc \cup {NoProc}, valid : BOOLEAN,
                      type : {"none", "dir", "file", "dev"}, nlink : Nat]]
  /\ \A p \in Proc : {th[p].cur, th[p].dp, th[p].ip} \subseteq Inum \cup {0}
  /\ cwd \in [Proc -> Inum \cup {0}]
  /\ ofile \in [Proc -> [Fd -> File \cup {0}]]
  /\ ftable \in [File -> [ref : Nat, ip : Inum \cup {0}]]

Count(S) == Cardinality(S)

\* How many pointers to inode i there are for which iget() or idup() was called.
Pointers(i) ==
  Count({<<p, v>> \in Proc \X {"cur", "dp", "ip"} :
           th[p][v] = i /\ ~(v = "ip" /\ th[p].pc = "create_iget")})
  + Count({<<p, k>> \in Proc \X (1 .. 2) : k <= Len(th[p].puts) /\ th[p].puts[k] = i})
  + Count({p \in Proc : cwd[p] = i})
  + Count({f \in File : ftable[f].ref > 0 /\ ftable[f].ip = i})

\* Reference counts are exact: an inode's counts the pointers to it in current
\* directories, open files and running calls, a file's the descriptors, through
\* every failure path of the calls (iget, idup, iput; filedup, fileclose).
RefExact ==
  /\ TypeOK
  /\ \A i \in Inum : ic[i].ref = Pointers(i)
  /\ \A f \in File : ftable[f].ref = Count({d \in Proc \X Fd : ofile[d[1]][d[2]] = f})

\* The link count that counts: the cached one if the inode is cached.
Nlink(i) == IF ic[i].valid THEN ic[i].nlink ELSE dinode[i].nlink

Links(i) == {e \in Inum \X Name : dir[e[1]][e[2]] = i}
Subdirs(i) == {e \in Inum \X Name : e[1] = i /\ dir[i][e[2]] # 0
                                    /\ dinode[dir[i][e[2]]].type = "dir"}

\* A link count is never less than the entries that name the inode and the
\* subdirectories it has, whatever link() and unlink() are in the middle of;
\* so no entry names a free inode, and none of the panics of ilock(), iput() and
\* sys_unlink() is reached.
LinksCounted ==
  /\ \A i \in Inum : Count(Links(i)) + Count(Subdirs(i)) <= Nlink(i)
  /\ \A i \in Inum, n \in Name : dir[i][n] # 0 => dinode[dir[i][n]].type # "none"
  /\ \A p \in Proc : th[p].pc # "panic"

\* An allocated inode without links is in use, so that the last iput() frees it;
\* or create() is about to use it.
OrphanHeld ==
  \A i \in Inum :
    dinode[i].type # "none" /\ Nlink(i) = 0 =>
      ic[i].ref > 0 \/ \E p \in Proc : th[p].pc = "create_iget" /\ th[p].ip = i

\* An unlocked inode that is marked I_VALID agrees with the disk, also when it
\* was freed and allocated again while iput() was still at work on it.
CacheMatchesDisk ==
  \A i \in Inum : ic[i].valid /\ ic[i].busy = NoProc =>
    [type |-> ic[i].type, nlink |-> ic[i].nlink] = dinode[i]

\* The inode whose lock p waits for.
Wants(p) ==
  CASE th[p].puts # <<>> -> 0
    [] InNamex(p) /\ th[p].path # <<>> -> th[p].cur
    [] th[p].pc \in {"link", "link_bad", "unlink_ip", "create_found", "create_init",
                     "open", "chdir"} -> th[p].ip
    [] th[p].pc \in {"link_dir", "unlink", "create"} -> th[p].dp
    [] OTHER -> 0

\* Inode locks do not deadlock: no set of processes wait for locks that are
\* held within the set (a directory's lock is held while an entry's is taken).
NoLockCycle ==
  \A S \in SUBSET Proc \ {{}} :
    \E p \in S : Wants(p) = 0 \/ ic[Wants(p)].busy \notin S
=============================================================================
