--------------------------- MODULE SqliteHandles ---------------------------
(***************************************************************************)
(* The objects a user of the pool has in hand, and what each of them owns: *)
(* ConnectionGuard (src/src/ConnectionGuard.cpp) a connection that is      *)
(* lent, Connection (src/src/Connection.cpp) a handle of SQLite, Cursor    *)
(* (src/src/Cursor.cpp) a statement prepared on such a handle.  Guards and *)
(* cursors can be moved from one variable to another.  query gives away a  *)
(* raw Cursor pointer, so that deleting it is left to the user.            *)
(*                                                                         *)
(* The pool is here as far as its users see it: it lends, takes back, may  *)
(* close what is idle, and is destroyed when no guard is left.             *)
(***************************************************************************)
EXTENDS Naturals, FiniteSets

CONSTANTS Conns,     \* addresses of Connection objects
          Handles,   \* handles sqlite3_open returns; bound: none comes back
          Stmts,     \* statements sqlite3_prepare_v2 returns; bound: likewise
          Guards,    \* variables that hold a guard
          Cursors,   \* variables that hold a cursor
          Null       \* the null pointer

ASSUME NullAssumption == Null \notin Conns \cup Handles \cup Stmts

VARIABLES db,      \* Connection::db_ of the objects there are
          idle,    \* connections the pool has
          guard,   \* conn_ of the guards there are; Null if it is empty
          cursor,  \* stmt_ of the cursors there are; Null if it is empty
          stmt,    \* SQLite: the statements not finalized, and their handles
          handles, \* SQLite: the handles that are open
          used,    \* SQLite: the handles and statements there have been
          pool,    \* "up" or "gone"
          careful  \* users delete their cursors before they return the guard

vars == <<db, idle, guard, cursor, stmt, handles, used, pool, careful>>
sqlite == <<stmt, handles, used>>

Lent == DOMAIN db \ idle

TypeOK == /\ DOMAIN db \subseteq Conns
          /\ \A c \in DOMAIN db : db[c] \in Handles \cup {Null}
          /\ idle \subseteq DOMAIN db
          /\ DOMAIN guard \subseteq Guards
          /\ \A g \in DOMAIN guard : guard[g] \in DOMAIN db \cup {Null}
          /\ DOMAIN cursor \subseteq Cursors
          /\ \A k \in DOMAIN cursor : cursor[k] \in Stmts \cup {Null}
          /\ DOMAIN stmt \subseteq Stmts
          /\ handles \subseteq Handles
          /\ used \subseteq Handles \cup Stmts
          /\ pool \in {"up", "gone"} /\ careful \in BOOLEAN

\* f with x mapped to v, and f without x.
With(f, x, v) == [y \in DOMAIN f \cup {x} |-> IF y = x THEN v ELSE f[y]]
Without(f, x) == [y \in DOMAIN f \ {x} |-> f[y]]

None == [x \in {} |-> Null]

Init == /\ db = None /\ idle = {}
        /\ guard = None /\ cursor = None
        /\ stmt = None /\ handles = {} /\ used = {}
        /\ pool = "up"
        /\ careful \in BOOLEAN

-----------------------------------------------------------------------------
(* Connection.                                                             *)

\* Connection(filename): if sqlite3_open fails, db_ is null.
Construct(c) ==
    /\ pool = "up" /\ c \notin DOMAIN db
    /\ \/ /\ db' = With(db, c, Null)
          /\ UNCHANGED sqlite
       \/ \E h \in Handles \ used : /\ db' = With(db, c, h)
                                    /\ handles' = handles \cup {h}
                                    /\ used' = used \cup {h}
                                    /\ UNCHANGED stmt
    /\ idle' = idle \cup {c}
    /\ UNCHANGED <<guard, cursor, pool, careful>>

\* sqlite3_close refuses a handle with statements that are not finalized.
Closes(hs) == {h \in hs \ {Null} : \A s \in DOMAIN stmt : stmt[s] # h}

\* ~Connection of some connections; nobody looks at what sqlite3_close says.
Destroys(cs) == /\ handles' = handles \ Closes({db[c] : c \in cs})
                /\ db' = [c \in DOMAIN db \ cs |-> db[c]]

\* The scanner deletes an idle connection.
Scan(c) == /\ pool = "up" /\ c \in idle
           /\ Destroys({c})
           /\ idle' = idle \ {c}
           /\ UNCHANGED <<guard, cursor, stmt, used, pool, careful>>

\* ~ConnectionPool; what users have of it is gone before.
PoolEnds == /\ pool = "up"
            /\ \A g \in DOMAIN guard : guard[g] = Null
            /\ pool' = "gone"
            /\ Destroys(idle)
            /\ idle' = {}
            /\ UNCHANGED <<guard, cursor, stmt, used, careful>>

-----------------------------------------------------------------------------
(* ConnectionGuard.  A guard has a callback if and only if it has a        *)
(* connection: acquire makes them so, and they are moved together.         *)

\* The connections whose guards this user may let go.
Returnable(c) ==
    careful /\ c # Null =>
        \A k \in DOMAIN cursor : cursor[k] # Null => stmt[cursor[k]] # db[c]

\* return_callback_(conn_), if there is one.
Returns(c) == idle' = idle \cup ({c} \ {Null})

\* acquire().get() into a variable: a connection, or an empty guard.
Acquire(g) ==
    /\ pool = "up" /\ g \notin DOMAIN guard
    /\ \E c \in idle \cup {Null} : /\ guard' = With(guard, g, c)
                                   /\ idle' = idle \ {c}
    /\ UNCHANGED <<db, cursor, sqlite, pool, careful>>

GuardDtor(g) ==
    /\ g \in DOMAIN guard /\ Returnable(guard[g])
    /\ Returns(guard[g])
    /\ guard' = Without(guard, g)
    /\ UNCHANGED <<db, cursor, sqlite, pool, careful>>

\* A move constructor that leaves the other as it was.
GuardMoveCopies(g, o) ==
    /\ o \in DOMAIN guard /\ g \notin DOMAIN guard
    /\ guard' = With(guard, g, guard[o])
    /\ UNCHANGED <<db, idle, cursor, sqlite, pool, careful>>

GuardMove(g, o) ==
    /\ o \in DOMAIN guard /\ g \notin DOMAIN guard
    /\ guard' = With(With(guard, g, guard[o]), o, Null)
    /\ UNCHANGED <<db, idle, cursor, sqlite, pool, careful>>

\* The assignment returns what the variable held; to itself it does nothing.
GuardAssign(g, o) ==
    /\ g \in DOMAIN guard /\ o \in DOMAIN guard /\ g # o
    /\ Returnable(guard[g])
    /\ Returns(guard[g])
    /\ guard' = [guard EXCEPT ![g] = guard[o], ![o] = Null]
    /\ UNCHANGED <<db, cursor, sqlite, pool, careful>>

-----------------------------------------------------------------------------
(* Cursor.                                                                 *)

\* query through a guard, if there is a handle: a cursor, whose statement is
\* null if the text has none in it.  An error leaves everything as it was.
Query(g, k) ==
    /\ g \in DOMAIN guard /\ guard[g] # Null /\ k \notin DOMAIN cursor
    /\ db[guard[g]] # Null
    /\ \/ /\ cursor' = With(cursor, k, Null)
          /\ UNCHANGED <<stmt, used>>
       \/ \E s \in Stmts \ used : /\ stmt' = With(stmt, s, db[guard[g]])
                                  /\ cursor' = With(cursor, k, s)
                                  /\ used' = used \cup {s}
    /\ UNCHANGED <<db, idle, guard, handles, pool, careful>>

\* sqlite3_finalize, which takes a null pointer too.
Finalize(s) == stmt' = [x \in DOMAIN stmt \ {s} |-> stmt[x]]

\* delete.
CursorDtor(k) ==
    /\ k \in DOMAIN cursor
    /\ Finalize(cursor[k])
    /\ cursor' = Without(cursor, k)
    /\ UNCHANGED <<db, idle, guard, handles, used, pool, careful>>

CursorMove(k, o) ==
    /\ o \in DOMAIN cursor /\ k \notin DOMAIN cursor
    /\ cursor' = With(With(cursor, k, cursor[o]), o, Null)
    /\ UNCHANGED <<db, idle, guard, sqlite, pool, careful>>

\* An assignment that only takes over.
CursorAssignForgets(k, o) ==
    /\ k \in DOMAIN cursor /\ o \in DOMAIN cursor /\ k # o
    /\ cursor' = [cursor EXCEPT ![k] = cursor[o], ![o] = Null]
    /\ UNCHANGED <<db, idle, guard, sqlite, pool, careful>>

CursorAssign(k, o) ==
    /\ k \in DOMAIN cursor /\ o \in DOMAIN cursor /\ k # o
    /\ Finalize(cursor[k])
    /\ cursor' = [cursor EXCEPT ![k] = cursor[o], ![o] = Null]
    /\ UNCHANGED <<db, idle, guard, handles, used, pool, careful>>

-----------------------------------------------------------------------------

Next == \/ \E c \in Conns : Construct(c) \/ Scan(c)
        \/ PoolEnds
        \/ \E g \in Guards : \/ Acquire(g) \/ GuardDtor(g)
                             \/ \E o \in Guards : GuardMove(g, o) \/ GuardAssign(g, o)
                             \/ \E k \in Cursors : Query(g, k)
        \/ \E k \in Cursors : \/ CursorDtor(k)
                              \/ \E o \in Cursors : CursorMove(k, o) \/ CursorAssign(k, o)

Spec == Init /\ [][Next]_vars

-----------------------------------------------------------------------------

\* Every connection that is lent is in exactly one guard, and will so come back
\* once and not twice, wherever its guard has been moved.
LoansExact ==
    \A c \in Conns : Cardinality({g \in DOMAIN guard : guard[g] = c})
                        = (IF c \in Lent THEN 1 ELSE 0)

\* Every statement is in exactly one cursor, and no cursor has one that is
\* finalized.
StatementsOwned ==
    \A s \in Stmts : Cardinality({k \in DOMAIN cursor : cursor[k] = s})
                        = (IF s \in DOMAIN stmt THEN 1 ELSE 0)

\* Nothing that is owned has two owners or none, wherever it has been moved to: it
\* will be given back, or finalized, exactly once.
OneOwner == LoansExact /\ StatementsOwned

\* A cursor outlives its guard and even its connection unharmed: the handle its
\* statement needs is open as long as there is the statement.
CursorsUsable == \A s \in DOMAIN stmt : stmt[s] \in handles

\* A handle is open for each connection that has one, and for no other: "no crash,
\* no leak" (main.cpp, Test 1).
HandlesClosed == handles = {db[c] : c \in DOMAIN db} \ {Null}

\* Handles are open as long as they are needed and no longer, if users delete their
\* cursors in time; if they do not, cursors stay usable all the same.
HandlesRight == CursorsUsable /\ (careful => HandlesClosed)
=============================================================================
