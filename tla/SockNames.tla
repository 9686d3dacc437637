----------------------------- MODULE SockNames -----------------------------
(***************************************************************************)
(* The names of local sockets in fs/sock.c.  A guest name, a path or an    *)
(* abstract name, is looked up to a number (socket_id), and the host       *)
(* socket is bound at a host path made of that number.  The number of a    *)
(* path is kept in the inode_data of the socket file, the number of an     *)
(* abstract name in a table; both live as long as they are referenced.     *)
(***************************************************************************)
EXTENDS Integers

CONSTANTS NameSocks,      \* sockets
          PathNames,      \* names that are paths
          AbstractNames,  \* names that begin with a null byte
          MaxIds,         \* calls of unix_socket_next_id (bound)
          MaxNameRefs     \* references to a name; each lookup leaves one (bound)

SockNameSet == PathNames \cup AbstractNames
NoName == "no name"
NoEntry == [refs |-> 0, id |-> 0]

VARIABLES
  nsock,    \* socket -> state, id (host address), ref (unix_name_inode or
            \* unix_name_abstract), name (unix_name), bound (what bind succeeded with)
  nameTab,  \* name -> refs and id of its inode_data or unix_abstract; refs 0 is none
  nameFile, \* the path names at which a socket file exists
  nameIds,  \* next_id
  nameOdd   \* history: "dangling" once a failed bind left ref pointing at a
            \* released name, "unlinked" names whose file was removed

nameVars == <<nsock, nameTab, nameFile, nameIds, nameOdd>>

NameInit ==
  /\ nsock = [s \in NameSocks |-> [state |-> "open", id |-> 0, ref |-> NoName,
                                   name |-> NoName, bound |-> NoName]]
  /\ nameTab = [n \in SockNameSet |-> NoEntry]
  /\ nameFile = {} /\ nameIds = 0 /\ nameOdd = {}

\* inode_get and unix_socket_get: a new inode_data has no number yet.
FreshNumber(e) == [refs |-> e.refs + 1, id |-> nameIds + 1]
Numbered(e) == [refs |-> e.refs + 1, id |-> IF e.id = 0 THEN nameIds + 1 ELSE e.id]
NumbersAfter(e) == IF e.id = 0 THEN nameIds + 1 ELSE nameIds

\* inode_release and unix_abstract_release: the last reference frees the entry.
NameReleased(e) == IF e.refs <= 1 THEN NoEntry ELSE [e EXCEPT !.refs = @ - 1]

\* sockaddr_read_bind for sys_bind, up to the call of the host's bind: the path
\* must be free and becomes a socket file, an abstract name must be unused.
BindName(s, n) ==
  /\ nsock[s].state = "open" /\ nameIds < MaxIds
  /\ IF n \in PathNames THEN n \notin nameFile ELSE nameTab[n].refs = 0
  /\ nameFile' = nameFile \cup ({n} \cap PathNames)
  /\ nameTab' = [nameTab EXCEPT ![n] = Numbered(@)]
  /\ nameIds' = NumbersAfter(nameTab[n])
  /\ nsock' = [nsock EXCEPT ![s].state = "binding", ![s].ref = n, ![s].name = n]
  /\ UNCHANGED nameOdd

\* The host binds, unless the socket has an address already.  The reference to
\* an inode is then forgotten, not released; an abstract name is kept in ref.
HostBinds(s) ==
  /\ nsock[s].state = "binding" /\ nsock[s].id = 0
  /\ nsock' = [nsock EXCEPT ![s].state = "open",
                            ![s].id = nameTab[nsock[s].ref].id,
                            ![s].ref = IF @ \in PathNames THEN NoName ELSE @,
                            ![s].bound = nsock[s].ref]
  /\ UNCHANGED <<nameTab, nameFile, nameIds, nameOdd>>

HostBindFails(s) ==
  /\ nsock[s].state = "binding" /\ nsock[s].id # 0
  /\ nsock' = [nsock EXCEPT ![s].state = "open"]
  /\ nameTab' = [nameTab EXCEPT ![nsock[s].ref] = NameReleased(@)]
  /\ nameOdd' = nameOdd \cup {"dangling"}
  /\ UNCHANGED <<nameFile, nameIds>>

\* sockaddr_read for sys_connect, sys_sendto and sys_sendmsg.  The inode is
\* released again; an abstract name is not.
LookUp(n) ==
  /\ n \in PathNames => n \in nameFile
  /\ n \in AbstractNames => nameTab[n].refs > 0
  /\ nameTab[n].refs < MaxNameRefs
  /\ nameIds < MaxIds
  /\ nameTab' = [nameTab EXCEPT ![n] = IF n \in PathNames THEN NameReleased(Numbered(@)) ELSE Numbered(@)]
  /\ nameIds' = NumbersAfter(nameTab[n])
  /\ UNCHANGED <<nsock, nameFile, nameOdd>>

\* unlink: a later bind makes a new inode, which has no number yet.
UnlinkName(n) ==
  /\ n \in nameFile
  /\ nameFile' = nameFile \ {n}
  /\ nameTab' = [nameTab EXCEPT ![n] = [refs |-> 0, id |-> 0]]
  /\ nsock' = [s \in NameSocks |-> IF nsock[s].bound = n THEN [nsock[s] EXCEPT !.bound = NoName] ELSE nsock[s]]
  /\ \A s \in NameSocks : nsock[s].state # "binding"
  /\ UNCHANGED <<nameIds, nameOdd>>

\* sock_close releases the name it still points to.
CloseName(s) ==
  /\ nsock[s].state = "open"
  /\ nameTab' = IF nsock[s].ref = NoName THEN nameTab ELSE [nameTab EXCEPT ![nsock[s].ref] = NameReleased(@)]
  /\ nsock' = [nsock EXCEPT ![s] = [@ EXCEPT !.state = "closed", !.ref = NoName, !.bound = NoName]]
  /\ UNCHANGED <<nameFile, nameIds, nameOdd>>

NameNext ==
  \/ \E s \in NameSocks, n \in SockNameSet : BindName(s, n)
  \/ \E s \in NameSocks : HostBinds(s) \/ HostBindFails(s) \/ CloseName(s)
  \/ \E n \in SockNameSet : LookUp(n) \/ UnlinkName(n)

NameSpec == NameInit /\ [][NameNext]_nameVars

\* sys_getsockname and copy_unix_name: the name the last bind asked for.
GetSockName(s) == nsock[s].name

-----------------------------------------------------------------------------
(* Properties.                                                             *)

NamesTypeOK ==
  /\ \A n \in SockNameSet : nameTab[n].refs \in Nat /\ nameTab[n].id \in 0..MaxIds
  /\ nameFile \subseteq PathNames /\ nameIds \in 0..MaxIds

\* The name an open socket was bound to, and which was not unlinked since,
\* leads to the host address of that socket and to no other; it may lead
\* astray only once a failed bind has left a released name behind.
NamesLead ==
  \/ "dangling" \in nameOdd
  \/ \A s \in NameSocks :
       /\ nsock[s].bound # NoName =>
            nameTab[nsock[s].bound].refs > 0 /\ nameTab[nsock[s].bound].id = nsock[s].id
       /\ \A u \in NameSocks \ {s} : nsock[s].id # 0 => nsock[u].id # nsock[s].id

\* getsockname gives the name that leads to the socket, until a bind fails.
NamesTold ==
  \/ "dangling" \in nameOdd
  \/ \A s \in NameSocks : nsock[s].bound # NoName /\ nsock[s].state = "open" => GetSockName(s) = nsock[s].bound

\* Bind, lookup, unlink and close keep names, numbers and host addresses of
\* local sockets in step.
NamesSafe == NamesTypeOK /\ NamesLead /\ NamesTold

\* "These are only used as strong references, to keep the inode alive while
\* there is a listener": with no socket left that was bound to a path, nothing
\* keeps the inode_data of the socket file.
InodeKeptForListener ==
  \A n \in PathNames :
    (\A s \in NameSocks : nsock[s].name = n => nsock[s].state = "closed") => nameTab[n].refs = 0
=============================================================================
