------------------------------- MODULE MyDup -------------------------------
(***************************************************************************)
(* HW1/my_dup.c: dup() and dup2() by fcntl(), and the main() that tries    *)
(* dup(), dup2(), mydup() and mydup2().  A descriptor table is a function  *)
(* from descriptors to open files; a call is a table and a result.  The    *)
(* program may inherit any descriptors.                                    *)
(***************************************************************************)
EXTENDS Integers, FiniteSets

CONSTANTS
  OPEN_MAX,                           \* descriptors are below it
  tempfd,                             \* 15
  invalidfd, invalidfd2, invalidfd3,  \* 100, 101, 102
  Closed, Inherited, File             \* what a descriptor is

Fds == 0 .. OPEN_MAX - 1

ASSUME DupAssumption ==
  /\ OPEN_MAX \in Nat \ {0}
  /\ {tempfd, invalidfd, invalidfd2, invalidfd3} \subseteq Int
  /\ tempfd \notin {invalidfd, invalidfd2, invalidfd3}
  /\ Cardinality({Closed, Inherited, File}) = 3

VARIABLES
  table,
  inherited,        \* the table at the start
  at,               \* the next call of main(), or how it returned
  fd, newfd, fd1    \* main()'s descriptors; -1 before they have a value

dupVars == <<table, inherited, at, fd, newfd, fd1>>

-----------------------------------------------------------------------------
(* The calls *)

IsOpen(t, f) == f \in Fds /\ t[f] # Closed
CloseIn(t, f) == [t EXCEPT ![f] = Closed]

\* fcntl(oldfd, F_DUPFD, min): the lowest free descriptor that is not below min.
Free(t, min) == {f \in Fds : f >= min /\ t[f] = Closed}
Lowest(S) == CHOOSE f \in S : \A g \in S : f <= g
DupFd(t, oldfd, min) ==
  IF IsOpen(t, oldfd) /\ min \in Fds /\ Free(t, min) # {}
    THEN [table |-> [t EXCEPT ![Lowest(Free(t, min))] = t[oldfd]], res |-> Lowest(Free(t, min))]
    ELSE [table |-> t, res |-> -1]

mydup(t, oldfd) == DupFd(t, oldfd, 0)

\* newfd is closed if it is open, before oldfd is looked at.
Cleared_Not(t, f) == t
Cleared(t, f) == IF IsOpen(t, f) THEN CloseIn(t, f) ELSE t

mydup2(t, oldfd, new) ==
  IF new = oldfd
    THEN [table |-> Cleared(t, new), res |-> IF IsOpen(Cleared(t, new), oldfd) THEN new ELSE -1]
    ELSE DupFd(Cleared(t, new), oldfd, new)

\* The library's dup2(): atomic, and nothing happens when a descriptor is bad.
dup2(t, oldfd, new) ==
  IF IsOpen(t, oldfd) /\ new \in Fds
    THEN [table |-> [t EXCEPT ![new] = t[oldfd]], res |-> new]
    ELSE [table |-> t, res |-> -1]

-----------------------------------------------------------------------------
(* main() *)

DupInit ==
  /\ inherited \in [Fds -> {Closed, Inherited}]
  /\ table = inherited
  /\ at = "open"
  /\ fd = -1 /\ newfd = -1 /\ fd1 = -1

Open ==
  /\ at = "open"
  /\ \/ /\ Free(table, 0) # {}
        /\ fd' = Lowest(Free(table, 0))
        /\ table' = [table EXCEPT ![fd'] = File]
        /\ at' = "dup"
     \/ at' = "return 1" /\ UNCHANGED <<table, fd>>
  /\ UNCHANGED <<inherited, newfd, fd1>>

\* newfd = dup(fd), then dup2(fd, tempfd); with an error fd is closed.
Dup ==
  LET call == DupFd(table, fd, 0)
  IN  /\ at = "dup"
      /\ newfd' = call.res
      /\ table' = IF call.res = -1 THEN CloseIn(table, fd) ELSE call.table
      /\ at' = IF call.res = -1 THEN "return 1" ELSE "dup2"
      /\ UNCHANGED <<inherited, fd, fd1>>

Dup2 ==
  LET call == dup2(table, fd, tempfd)
  IN  /\ at = "dup2"
      /\ table' = IF call.res = -1 THEN CloseIn(table, fd) ELSE call.table
      /\ at' = IF call.res = -1 THEN "return 1" ELSE "dup fd1"
      /\ UNCHANGED <<inherited, fd, newfd, fd1>>

DupAgain ==
  LET call == DupFd(table, fd, 0)
  IN  /\ at = "dup fd1"
      /\ fd1' = call.res
      /\ table' = call.table
      /\ at' = IF call.res = -1 THEN "return 1" ELSE "lseek"
      /\ UNCHANGED <<inherited, fd, newfd>>

\* The two lseek() calls; the file may be one that has no offset.
Lseek ==
  /\ at = "lseek"
  /\ at' \in {"invalid", "return 1"}
  /\ UNCHANGED <<table, inherited, fd, newfd, fd1>>

\* mydup(invalidfd) and mydup2(invalidfd2, invalidfd3).
Invalid ==
  /\ at = "invalid"
  /\ table' = mydup2(mydup(table, invalidfd).table, invalidfd2, invalidfd3).table
  /\ at' = "close fd"
  /\ UNCHANGED <<inherited, fd, newfd, fd1>>

LastClosed_Fd1 == fd1
LastClosed == tempfd

Close(f, next) ==
  /\ table' = IF IsOpen(table, f) THEN CloseIn(table, f) ELSE table
  /\ at' = IF IsOpen(table, f) THEN next ELSE "return 1"
  /\ UNCHANGED <<inherited, fd, newfd, fd1>>

CloseFd     == at = "close fd" /\ Close(fd, "close newfd")
CloseNewfd  == at = "close newfd" /\ Close(newfd, "close tempfd")
CloseTempfd == at = "close tempfd" /\ Close(LastClosed, "return 0")

DupNext ==
  \/ Open \/ Dup \/ Dup2 \/ DupAgain \/ Lseek \/ Invalid
  \/ CloseFd \/ CloseNewfd \/ CloseTempfd

DupSpec == DupInit /\ [][DupNext]_dupVars

-----------------------------------------------------------------------------
(* Properties *)

\* Whatever is open, mydup2() of an open descriptor onto another one does what
\* dup2() does (lines 23-53).  For oldfd = newfd, and for a bad oldfd, it does
\* not: newfd is closed.
Dup2Agrees ==
  \A old \in -1 .. OPEN_MAX, new \in -1 .. OPEN_MAX :
    IsOpen(table, old) /\ old # new => mydup2(table, old, new) = dup2(table, old, new)

\* A main() that returns 0 found its four descriptors distinct, and leaves those
\* other than fd1 as they were, but for tempfd, which is closed; provided that the
\* descriptors 100 .. 102 were free when it took them for invalid (lines 73-167).
Invalids == {invalidfd, invalidfd2, invalidfd3}
FreeThen(f) == ~IsOpen(inherited, f) /\ f \notin {fd, newfd, fd1}

OthersAsBefore ==
  at = "return 0" /\ (\A f \in Invalids : FreeThen(f))
    => /\ Cardinality({fd, newfd, fd1, tempfd}) = 4
       /\ \A f \in Fds \ {fd1} : table[f] = IF f = tempfd THEN Closed ELSE inherited[f]
=============================================================================
