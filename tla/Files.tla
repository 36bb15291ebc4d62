-------------------------------- MODULE Files --------------------------------
(***************************************************************************)
(* What the file calls of kern/fs/vfs promise on one sfs volume: a flat     *)
(* directory of names, files that live as long as a name or a descriptor    *)
(* refers to them, contents that change only by writing and truncation and  *)
(* read as zeros where nothing was written, and calls that fail without     *)
(* effect, except a write, which may have moved a first part of its data,   *)
(* and a truncation, which may have blanked parts of the file.  Nothing is  *)
(* said of blocks, inodes, link counts, the cache or the disk; unmounting,  *)
(* syncing and mounting again must not show.                                *)
(***************************************************************************)
EXTENDS Integers, Sequences, FiniteSets, Functions

CONSTANTS
    Names, Fds,
    Ids,        \* what identifies a file
    None,       \* no file
    Values,     \* what can be written
    Zero,       \* what unwritten parts of a file hold
    OpenFlags, Transfers    \* ranges of Open's flags and of Write

VARIABLES
    names,      \* the file each name refers to
    files,      \* the contents of the files that exist
    fds,        \* the file each descriptor is open on
    out         \* how the last call ended, "ok" for success

absvars == <<names, files, fds, out>>

Failures == {"EIO", "ENOMEM", "ENOSPC"}

(* A file neither named nor open ceases to exist.                           *)
Keep(fl, nm, fd) == Restrict(fl, DOMAIN fl \cap (Range(nm) \union Range(fd)))

Written(c, off, n, v) ==
    [u \in 1 .. (IF n > 0 /\ off + n > Len(c) THEN off + n ELSE Len(c)) |->
        IF u \in off + 1 .. off + n THEN v
        ELSE IF u <= Len(c) THEN c[u] ELSE Zero]

Init ==
    /\ names = [n \in Names |-> None]
    /\ files = << >>
    /\ fds = [d \in Fds |-> None]
    /\ out = "ok"

Fail(errors) ==
    /\ out' \in errors
    /\ UNCHANGED <<names, files, fds>>

(* open: creates the file if asked to and needed; a combination of flags    *)
(* that the file system refuses is noticed after the file has been made.    *)
Open(d, n, f) ==
    LET there   == names[n] # None
        clash   == there /\ f.creat /\ f.excl
        refused == f.append \/ (f.trunc /\ ~f.write)
        With(i, c) == [j \in DOMAIN files \union {i} |->
                          IF j = i THEN c ELSE files[j]]
    IN  /\ fds[d] = None
        /\ \/ /\ there \/ f.creat
              /\ ~clash
              /\ \E i \in Ids :
                    /\ IF there THEN i = names[n] ELSE i \notin DOMAIN files
                    /\ names' = [names EXCEPT ![n] = i]
                    /\ IF refused
                       THEN /\ out' = IF f.append THEN "EUNIMP" ELSE "EINVAL"
                            /\ files' = With(i, IF there THEN files[i] ELSE <<>>)
                            /\ UNCHANGED fds
                       ELSE /\ out' = "ok"
                            /\ files' = With(i, IF there /\ ~f.trunc
                                                THEN files[i] ELSE <<>>)
                            /\ fds' = [fds EXCEPT ![d] = i]
           \/ ~there /\ ~f.creat /\ Fail({"ENOENT"})
           \/ clash /\ Fail({"EEXIST"})
           \/ /\ there /\ f.trunc /\ f.write /\ ~f.append /\ ~clash
              /\ \E blank \in SUBSET (1 .. Len(files[names[n]])) :
                    files' = With(names[n],
                                  [u \in 1 .. Len(files[names[n]]) |->
                                      IF u \in blank THEN Zero
                                      ELSE files[names[n]][u]])
              /\ out' = "EIO"
              /\ UNCHANGED <<names, fds>>
           \/ Fail(Failures)

(* write: all of the data, or a first part of it and an error.              *)
Write(d, off, len, v) ==
    /\ fds[d] # None
    /\ \E n \in 0 .. len :
          /\ out' \in IF n = len THEN {"ok"} ELSE Failures \union {"EINVAL"}
          /\ files' = [files EXCEPT ![fds[d]] = Written(@, off, n, v)]
    /\ UNCHANGED <<names, fds>>

Close(d) ==
    /\ fds[d] # None
    /\ fds' = [fds EXCEPT ![d] = None]
    /\ files' = Keep(files, names, fds')
    /\ out' = "ok"
    /\ UNCHANGED names

Remove(n) ==
    \/ /\ names[n] # None
       /\ names' = [names EXCEPT ![n] = None]
       /\ files' = Keep(files, names', fds)
       /\ out' = "ok"
       /\ UNCHANGED fds
    \/ names[n] = None /\ Fail({"ENOENT"})
    \/ Fail(Failures)

Rename(n1, n2) ==
    \/ /\ names[n1] # None /\ names[n2] = None
       /\ names' = [names EXCEPT ![n2] = names[n1], ![n1] = None]
       /\ out' = "ok"
       /\ UNCHANGED <<files, fds>>
    \/ names[n1] = None /\ Fail({"ENOENT"})
    \/ names[n1] # None /\ names[n2] # None /\ Fail({"EEXIST"})
    \/ Fail(Failures)

Link(n1, n2) ==
    \/ /\ names[n1] # None /\ names[n2] = None
       /\ names' = [names EXCEPT ![n2] = names[n1]]
       /\ out' = "ok"
       /\ UNCHANGED <<files, fds>>
    \/ names[n1] = None /\ Fail({"ENOENT"})
    \/ names[n1] # None /\ names[n2] # None /\ Fail({"EEXIST"})
    \/ Fail(Failures)

(* sync, mount and unmount: no call on the volume shows the difference.     *)
Manage == Fail({"ok", "EBUSY"} \union Failures)

(* The system is shut down: every descriptor goes, and with them the files  *)
(* that had no name.                                                        *)
Shutdown ==
    /\ fds' = [d \in Fds |-> None]
    /\ files' = Keep(files, names, fds')
    /\ out' = "ok"
    /\ UNCHANGED names

(* The kernel panics, in a rename possibly with the file under both names.  *)
Panic ==
    /\ out' = "panic"
    /\ \/ UNCHANGED names
       \/ \E n1, n2 \in Names :
             /\ names[n1] # None /\ names[n2] = None
             /\ names' = [names EXCEPT ![n2] = names[n1]]
    /\ UNCHANGED <<files, fds>>

Next ==
    \/ \E d \in Fds :
          \/ \E n \in Names, f \in OpenFlags : Open(d, n, f)
          \/ \E x \in Transfers, v \in Values : Write(d, x.off, x.len, v)
          \/ Close(d)
    \/ \E n1 \in Names : Remove(n1) \/ \E n2 \in Names : Rename(n1, n2) \/ Link(n1, n2)
    \/ Manage
    \/ Shutdown
    \/ Panic

Spec == Init /\ [][Next]_absvars
==============================================================================
