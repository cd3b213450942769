-------------------------------- MODULE MCDbs --------------------------------
(***************************************************************************)
(* Instances of Dbs for TLC.  The table file holds an administrator and,   *)
(* in most runs, an ordinary user.                                         *)
(***************************************************************************)
EXTENDS Dbs, TLC

Typed(login, type) == [login |-> <<login>>, email |-> <<login>>,
                       pass |-> <<"p">>, type |-> <<type>>]

Ana == Typed("ana", "usuario")
Eva == Typed("eva", "operador")

Odd == Typed("odd", "jefe")

\* The login of one user, the email of another.
Namesake == [Ana EXCEPT !.email = <<"otra">>]
Mailmate == [Eva EXCEPT !.email = <<"ana">>]

NewUsers     == {Ana, Eva, Odd, Namesake, Mailmate}
SessionSymmetry == Permutations(Sessions)

NewPasswords == {<<"q">>}

Lines(entries) == [i \in DOMAIN entries |-> LineOf(WithUid(entries[i], 1000 + i))]
AdminOnly   == Lines(<<admin>>)
AdminAndAna == Lines(<<admin, Ana>>)

Req(op, a) == [op |-> op, arg |-> a, ok |-> TRUE]

Login(e)      == Req("conectar", [login |-> e.login, pass |-> e.pass])
Create(e)     == Req("crear", e)
Remove(e)     == Req("borrar", [login |-> e.login])
ChangePass(e) == Req("cambiarclave", [login |-> e.login, old |-> e.pass, new |-> <<"q">>])
Search        == Req("buscar", [field |-> "permisos", pattern |-> {<<"usuario">>}])
BadSearch     == Req("buscar", [field |-> "edad", pattern |-> {}])
Plain(op)     == Req(op, <<>>)
NoParams(op)  == [op |-> op, arg |-> <<>>, ok |-> FALSE]

\* Everything one client can ask.
AllRequests ==
  {Login(admin), Login(Ana), Login(Eva), Create(Namesake), Create(Mailmate),
   Remove(Ana), ChangePass(Ana), Search}
  \cup {Plain(op) : op \in {"listar", "bloquear", "desbloquear", "commit", "rollback", "salir", "otro"}}
  \cup {NoParams("crear"), NoParams("conectar"), Create(Odd), BadSearch}

\* Clients who change users, none of whom rolls back.
NoRollback ==
  {Login(admin), Login(Ana), Create(Ana), Create(Eva), Remove(Ana), ChangePass(Ana), Plain("salir")}

\* Clients who block the system and use it.
Blocking ==
  {Login(admin), Login(Ana), Remove(Ana), ChangePass(Ana), Plain("bloquear"), Plain("desbloquear"), Plain("salir")}

\* Clients whose requests wait for each other's mutexes.  None of them
\* mallocs a row, so no bound stops a thread.
Waiting ==
  {Login(admin), Login(Ana), Remove(Ana), Plain("bloquear"), Plain("desbloquear"), Plain("commit"), Plain("listar")}
=============================================================================
