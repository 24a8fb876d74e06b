------------------------------- MODULE Files -------------------------------
(***************************************************************************)
(* File descriptors: the table alt_fd_list, what alt_main does with it     *)
(* before main, and open, close, ioctl, fcntl, lseek, read and write on    *)
(* descriptors that are open (the code follows the device pointer of a     *)
(* closed one without a look).  There is one thread, so a call is a step.  *)
(* There is no file system in this build: a name is the name of a device.  *)
(***************************************************************************)
EXTENDS Integers, FiniteSetsExt

CONSTANTS
  MaxFd,     \* ALT_MAX_FD
  Jtag,      \* the JTAG UART, the device of system.h for all standard streams
  Null,      \* /dev/null, which can only be written
  Strange,   \* a name no device has
  Access     \* the access modes open is called with

ASSUME FdAssumption == MaxFd \in Nat /\ MaxFd >= 4
ASSUME AccessAssumption == Access \subseteq {"O_RDONLY", "O_WRONLY", "O_RDWR"}
ASSUME DevAssumption == Jtag # Null /\ Strange \notin {Jtag, Null} /\ 0 \notin {Jtag, Null}

VARIABLES
  fds,       \* alt_fd_list
  maxfd,     \* alt_max_fd
  devices,   \* alt_dev_list
  boot,      \* how far alt_main has come
  errno      \* why the last call failed, or Success

fileVars == <<fds, maxfd, devices, boot, errno>>

-----------------------------------------------------------------------------
NoDev   == 0
Success == "none"
Fd      == 0 .. MaxFd - 1

Stdin  == 0
Stdout == 1
Stderr == 2
Standard == {Stdin, Stdout, Stderr}

\* A descriptor: dev, the flags O_ACCMODE, O_NONBLOCK, ALT_FD_DEV, ALT_FD_EXCL.
Descriptor(d, acc, isdev) ==
  [dev |-> d, access |-> acc, nonblock |-> FALSE, isdev |-> isdev, excl |-> FALSE]

Closed == Descriptor(NoDev, "O_RDONLY", FALSE)
Open(i) == fds[i].dev # NoDev

FilesInit ==
  /\ fds = [i \in Fd |-> IF i \in Standard THEN Descriptor(Null, "O_RDONLY", FALSE)
                                           ELSE Closed]
  /\ maxfd = -1
  /\ devices = {Null}
  /\ boot = "sys_init"
  /\ errno = Success

-----------------------------------------------------------------------------
\* alt_get_fd: the first free descriptor, if there is one.
Free == {i \in Fd : ~Open(i)}

\* Mutant of LockedFor: the highest descriptor is not looked at.
LockedFor_Below(d, self) ==
  \E i \in 0 .. maxfd - 1 : i # self /\ fds[i].dev = d /\ fds[i].excl

\* alt_file_locked, once descriptor self has been taken and maxfd raised.
LockedFor(d, self) ==
  \E i \in 0 .. Max({maxfd, self}) : i # self /\ fds[i].dev = d /\ fds[i].excl

\* The reasons for which open fails.
OpenError(name) ==
  IF name \notin devices THEN "ENODEV"
  ELSE IF Free = {} THEN "EMFILE"
  ELSE IF LockedFor(name, Min(Free)) THEN "EACCES"
  ELSE Success

\* ALT_OPEN, into descriptor `to`: the one found or, in alt_open_fd, a standard
\* one, to which it is moved.  A failed open gives the one it took back.
OpenAt(name, acc, to) ==
  /\ errno' = OpenError(name)
  /\ fds' = IF errno' = Success
              THEN [fds EXCEPT ![to] = Descriptor(name, acc, TRUE)] ELSE fds
  /\ maxfd' = IF errno' \in {Success, "EACCES"} THEN Max({maxfd, Min(Free)}) ELSE maxfd

Running == boot = "main"

FileOpen(name, acc) ==
  /\ Running
  /\ OpenAt(name, acc, IF Free = {} THEN Stdin ELSE Min(Free))
  /\ UNCHANGED <<devices, boot>>

\* Mutant of Release: the standard streams are released too.
Release_All(i) == [fds EXCEPT ![i] = Closed]

\* alt_release_fd keeps the standard streams.
Release(i) == IF i \in Standard THEN fds ELSE [fds EXCEPT ![i] = Closed]

\* ALT_CLOSE: the descriptor is released whether the driver's close succeeds or,
\* as that of a nonblocking JTAG UART may, does not.
FileClose(i) ==
  /\ Running /\ Open(i)
  /\ errno' \in {Success} \cup
       (IF fds[i].dev = Jtag /\ fds[i].nonblock THEN {"EWOULDBLOCK"} ELSE {})
  /\ fds' = Release(i)
  /\ UNCHANGED <<maxfd, devices, boot>>

\* Mutant of LockRefused: the search begins at the descriptor itself.
LockRefused_Above(i) == \E j \in i .. maxfd - 1 : j # i /\ fds[j].dev = fds[i].dev

\* alt_fd_lock looks at the descriptors below maxfd only, so that one at
\* maxfd itself does not keep another from being locked.
LockRefused(i) == \E j \in 0 .. maxfd - 1 : j # i /\ fds[j].dev = fds[i].dev

\* ALT_IOCTL: TIOCEXCL and TIOCNXCL on a device.
FileLock(i) ==
  /\ Running /\ Open(i) /\ fds[i].isdev
  /\ errno' = IF LockRefused(i) THEN "EACCES" ELSE Success
  /\ fds' = IF LockRefused(i) THEN fds ELSE [fds EXCEPT ![i].excl = TRUE]
  /\ UNCHANGED <<maxfd, devices, boot>>

FileUnlock(i) ==
  /\ Running /\ Open(i) /\ fds[i].isdev
  /\ errno' = Success
  /\ fds' = [fds EXCEPT ![i].excl = FALSE]
  /\ UNCHANGED <<maxfd, devices, boot>>

\* ALT_FCNTL, F_SETFL.
FileSetFlags(i) ==
  /\ Running /\ Open(i)
  /\ \E nb \in BOOLEAN : fds' = [fds EXCEPT ![i].nonblock = nb]
  /\ UNCHANGED <<maxfd, devices, boot, errno>>

\* ALT_WRITE and ALT_READ: whether the driver is called at all.
MayWrite(i) == fds[i].access # "O_RDONLY"
MayRead(i)  == fds[i].access # "O_WRONLY" /\ fds[i].dev = Jtag

FileTransfer(i) ==
  /\ Running /\ Open(i)
  /\ \E may \in {MayWrite(i), MayRead(i)} : errno' = IF may THEN Success ELSE "EACCES"
  /\ UNCHANGED <<fds, maxfd, devices, boot>>

\* ALT_LSEEK: neither device can seek.
FileSeek(i) ==
  /\ Running /\ Open(i)
  /\ errno' = "ENOTSUP"
  /\ UNCHANGED <<fds, maxfd, devices, boot>>

-----------------------------------------------------------------------------
\* alt_sys_init registers the JTAG UART.
SysInit ==
  /\ boot = "sys_init"
  /\ devices' = devices \cup {Jtag}
  /\ boot' = "stdout"
  /\ UNCHANGED <<fds, maxfd, errno>>

\* alt_io_redirect: alt_open_fd for stdout, stdin, stderr.
Redirect(from, to, acc, onward) ==
  /\ boot = from
  /\ OpenAt(Jtag, acc, to)
  /\ boot' = onward
  /\ UNCHANGED devices

IoRedirect ==
  \/ Redirect("stdout", Stdout, "O_WRONLY", "stdin")
  \/ Redirect("stdin",  Stdin,  "O_RDONLY", "stderr")
  \/ Redirect("stderr", Stderr, "O_WRONLY", "main")

-----------------------------------------------------------------------------
FilesNext ==
  \/ SysInit
  \/ IoRedirect
  \/ \E name \in {Jtag, Null, Strange}, acc \in Access : FileOpen(name, acc)
  \/ \E i \in Fd : \/ FileClose(i) \/ FileLock(i) \/ FileUnlock(i)
                   \/ FileSetFlags(i) \/ FileTransfer(i) \/ FileSeek(i)

FilesSpec == FilesInit /\ [][FilesNext]_fileVars

-----------------------------------------------------------------------------
Descriptors == [dev : {NoDev, Jtag, Null}, access : Access \cup {"O_RDONLY", "O_WRONLY"},
                nonblock : BOOLEAN, isdev : BOOLEAN, excl : BOOLEAN]

FilesTypeOK ==
  /\ fds \in [Fd -> Descriptors]
  /\ maxfd \in -1 .. MaxFd - 1
  /\ devices \subseteq {Jtag, Null}
  /\ boot \in {"sys_init", "stdout", "stdin", "stderr", "main"}
  /\ errno \in {Success, "ENODEV", "EMFILE", "EACCES", "EWOULDBLOCK", "ENOTSUP"}

(***************************************************************************)
(* printf always has somewhere to go: a standard stream has a device from  *)
(* the first instruction on, and in main, whatever is closed, locked and   *)
(* opened, it is the JTAG UART and may be used in its direction.           *)
(***************************************************************************)
StdStreams ==
  /\ \A i \in Standard : Open(i)
  /\ Running => /\ \A i \in Standard : fds[i].dev = Jtag
                /\ MayRead(Stdin) /\ MayWrite(Stdout) /\ MayWrite(Stderr)

(***************************************************************************)
(* What a lock is worth.  It does not keep out a descriptor that was open  *)
(* before (the search for one misses the highest), but no other is opened  *)
(* while it is held, and no two descriptors of a device hold it at once.   *)
(***************************************************************************)
OneLock ==
  \A i, j \in Fd : i # j /\ fds[i].excl /\ fds[j].excl => fds[i].dev # fds[j].dev

NoneOpened ==
  [][ \A i, j \in Fd :
        ~Open(i) /\ Open(i)' /\ fds[j].excl => fds[j].dev # fds'[i].dev ]_fileVars

LockKeepsOut == []OneLock /\ NoneOpened
=============================================================================
