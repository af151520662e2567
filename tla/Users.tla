--------------------------------- MODULE Users ---------------------------------
(***************************************************************************)
(* The list of users of iotsaMultiUser.cpp: a user has a number, by which   *)
(* REST requests name it, and the numbers are the order of the file, which  *)
(* ends at the first user without a name.  Requests are those that are not  *)
(* refused; texts are single lines.                                         *)
(***************************************************************************)
EXTENDS ConfigFile

CONSTANTS
  UserNames, Passwords, UserRights,   \* the texts that requests hold
  Rights,                             \* what a handler may ask for
  AllRights, NoText,                  \* of UserRights: "*", and the empty text
  MaxUsers                            \* bound

VARIABLES users, usersFile
userVars == <<users, usersFile>>

\* A text is a single value of the file.
UserType == [username : UserNames, password : Passwords, rights : UserRights]

ASSUME UsersAssumption ==
  /\ NoText \in UserNames \cap Passwords \cap UserRights /\ AllRights \in UserRights
  /\ UserRights \ {AllRights, NoText} \subseteq SUBSET Rights
  /\ MaxUsers \in Nat

--------------------------------------------------------------------------------
(* The file: a line for each field of each user, under its number. *)

UserLines(i, u) ==
  <<Entry(<<i, "username">>, <<u.username>>), Entry(<<i, "password">>, <<u.password>>),
    Entry(<<i, "rights">>, <<u.rights>>)>>

SavedUsers(us) ==
  [k \in 1 .. 3 * Len(us) |->
     UserLines((k - 1) \div 3, us[(k - 1) \div 3 + 1])[((k - 1) % 3) + 1]]

FieldOf(file, i, field) == Head(GetValue(file, <<i - 1, field>>, <<NoText>>))

\* Variant: the end of the list is one off.
LoadedUsersBut(file) ==
  LET named == {n \in 0 .. Len(file) :
                  \A i \in 1 .. n : FieldOf(file, i, "username") # NoText}
  IN [i \in 1 .. Max((named \ {Max(named)}) \cup {0}) |->
        [username |-> FieldOf(file, i, "username"),
         password |-> FieldOf(file, i, "password"), rights |-> FieldOf(file, i, "rights")]]

LoadedUsers(file) ==
  LET named == {n \in 0 .. Len(file) :
                  \A i \in 1 .. n : FieldOf(file, i, "username") # NoText}
  IN [i \in 1 .. Max(named) |->
        [username |-> FieldOf(file, i, "username"),
         password |-> FieldOf(file, i, "password"), rights |-> FieldOf(file, i, "rights")]]

SaveUsers == usersFile' = SavedUsers(users')

\* Variant: a new user comes first.
AddUserFirst(u) == Len(users) < MaxUsers /\ users' = <<u>> \o users /\ SaveUsers

\* _addUser()
AddUser(u) == Len(users) < MaxUsers /\ users' = Append(users, u) /\ SaveUsers

--------------------------------------------------------------------------------
(* Requests. *)

\* The form: every field is set, to an empty text if need be.
FormAddsUser(u) == AddUser(u)

\* The form that changes a user changes a copy of it, and saves the list.
FormChangesUser(name) ==
  /\ \E i \in DOMAIN users : users[i].username = name
  /\ UNCHANGED users /\ SaveUsers

\* POST: at least a field is named; that nothing was named, and the answer is taken
\* from a variable that was not set, makes a user without a name or none.
PostUser(u) == AddUser(u)

\* PUT of the user with a number: the fields that are named change, whichever they are.
PutUser(i, u) == users' = [users EXCEPT ![i] = u] /\ SaveUsers

UsersRestart == users' = LoadedUsers(usersFile) /\ UNCHANGED usersFile

\* Power fails while the list is saved, for whatever request.
UsersSaveCutShort ==
  /\ usersFile' \in CutShort(SavedUsers(users))
  /\ users' = LoadedUsers(usersFile')

UsersInit == usersFile = <<>> /\ users = LoadedUsers(usersFile)

UsersNext ==
  \/ \E u \in UserType : FormAddsUser(u) \/ PostUser(u)
  \/ \E name \in UserNames : FormChangesUser(name)
  \/ \E i \in DOMAIN users, u \in UserType : PutUser(i, u)
  \/ UsersRestart \/ UsersSaveCutShort

UsersSpec == UsersInit /\ [][UsersNext]_userVars

--------------------------------------------------------------------------------
(* allows() *)

Has(rights, right) == rights = AllRights \/ (rights # NoText /\ right \in rights)

\* The first user with the name and password of the request decides.
Allows(us, name, password, right) ==
  LET matching == {i \in DOMAIN us : us[i].username = name /\ us[i].password = password}
  IN us = <<>> \/ (matching # {} /\ Has(us[Min(matching)].rights, right))

--------------------------------------------------------------------------------
(* Correctness. *)

\* Users up to the first without a name, which a form or a PUT may leave, have their
\* number, password and rights back after a restart, whatever was added, changed or cut
\* short before.
UsersSurvive ==
  \E n \in 0 .. Len(users) :
    /\ LoadedUsers(usersFile) = SubSeq(users, 1, n)
    /\ n = Len(users) \/ users[n + 1].username = NoText

\* A user that is added, also one with the name and password of another, as the Change
\* button of the form makes it, takes no right from any user there was.
AddingKeepsRights ==
  [][Len(users') > Len(users) /\ users # <<>> =>
       \A name \in UserNames, password \in Passwords, right \in Rights :
         Allows(users, name, password, right) => Allows(users', name, password, right)]_userVars
================================================================================
