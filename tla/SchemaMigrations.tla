-------------------------- MODULE SchemaMigrations --------------------------
(***************************************************************************)
(* The database schema: the two histories of migrations, the transactions  *)
(* that migrate:run and migrate:revert execute statement by statement, and *)
(* the data they meet.  migrationsRun and synchronize are false, so only   *)
(* these two commands change the schema, while the program may be running. *)
(*                                                                         *)
(* A schema has tables with typed columns, unique keys (primary ones       *)
(* included) and foreign keys.  Columns that no key and no later migration *)
(* names, and indexes that are not unique, are left out; of the data only  *)
(* the set of tables that have rows is kept.  "?" marks a type that admits *)
(* NULL, "=" one with a default.  Generated constraint names are cut short.*)
(***************************************************************************)
EXTENDS Naturals, SequencesExt, Tables

CONSTANT Idle \* no migration is being executed

VARIABLES
    history,   \* which migrations the database gets
    executed,  \* migration_typeorm: how many of them it has
    schema,    \* the committed schema
    rows,      \* the tables that have committed rows
    tx         \* the transaction of a migration command, or Idle

vars == <<history, executed, schema, rows, tx>>

Nullable  == {"bigint?", "int?", "varchar6?", "uuid?"}
Defaulted == {"uuid=", "smallint="}

-----------------------------------------------------------------------------
(* Statements, each a sequence with one element per query.                 *)

CreateTable(t, cols, keys) == <<[op |-> "create table", table |-> t, cols |-> cols, keys |-> keys]>>
DropTables(ts)             == [i \in DOMAIN ts |-> [op |-> "drop table", table |-> ts[i]]]
AddColumn(t, col, type)    == <<[op |-> "add column", table |-> t, col |-> col, type |-> type]>>
DropColumns(t, cols)       == [i \in DOMAIN cols |-> [op |-> "drop column", table |-> t, col |-> cols[i]]]
RenameColumn(t, col, new)  == <<[op |-> "rename column", table |-> t, col |-> col, new |-> new]>>
RenameKey(t, name, new)    == <<[op |-> "rename key", table |-> t, name |-> name, new |-> new]>>
AddKey(t, name, cols)      == <<[op |-> "add key", table |-> t, name |-> name, cols |-> cols]>>
DropConstraints(t, names)  == [i \in DOMAIN names |-> [op |-> "drop constraint", table |-> t, name |-> names[i]]]
References(col, to, onDelete, onUpdate) == [col |-> col, to |-> to, onDelete |-> onDelete, onUpdate |-> onUpdate]
Cascades(col, to)          == References(col, to, "cascade", "no action")
AddForeignKey(t, name, fk) == <<[op |-> "add foreign key", table |-> t, name |-> name, fk |-> fk]>>

\* A column of another type takes the place of a key column, without its values.
Retype(t, col, type, key) ==
    DropConstraints(t, <<key>>) \o DropColumns(t, <<col>>)
    \o AddColumn(t, col, type) \o AddKey(t, key, {col})

\* The slip lets the new column be empty.
RetypeUsersColumn_Mut(type) == Retype("users", "unique_registry_id", "uuid?", "UQ_9a2c")

RetypeUsersColumn(type) == Retype("users", "unique_registry_id", type, "UQ_9a2c")

-----------------------------------------------------------------------------
(* The history for PostgreSQL.                                             *)

FirstUp ==
    CreateTable("enterprise_members",
        [id |-> "uuid=", cpf |-> "bigint", user_id |-> "uuid", condominium_id |-> "uuid"],
        [UQ_5ade |-> {"cpf", "condominium_id"}, UQ_87e0 |-> {"user_id", "condominium_id"},
         REL_045a |-> {"user_id"}, PK_c114 |-> {"id"}])
    \o CreateTable("users", [id |-> "uuid=", email |-> "varchar320"], [UQ_9767 |-> {"email"}, PK_a3ff |-> {"id"}])
    \o CreateTable("condominium_members",
        [id |-> "uuid=", cpf |-> "bigint", c_email |-> "varchar320", apartment_number |-> "int?",
         block |-> "varchar6?", auto_edit |-> "smallint=", condominium_id |-> "uuid", user_id |-> "uuid?"],
        [UQ_1555 |-> {"cpf", "condominium_id"}, UQ_284e |-> {"c_email", "condominium_id"},
         UQ_7fa9 |-> {"user_id", "condominium_id"}, PK_6ff0 |-> {"id"}])
    \o CreateTable("invites",
        [id |-> "uuid=", recipient |-> "varchar320", condominium_id |-> "uuid", member_id |-> "uuid"],
        [UQ_e2e4 |-> {"recipient", "condominium_id"}, UQ_aaed |-> {"member_id", "condominium_id"},
         REL_dce1 |-> {"member_id"}, PK_aa52 |-> {"id"}])
    \o CreateTable("condominiums",
        [id |-> "uuid=", name |-> "varchar120", cep |-> "int", cnpj |-> "bigint", owner_id |-> "uuid"],
        [UQ_9c66 |-> {"name"}, UQ_b99e |-> {"cep"}, UQ_72b3 |-> {"cnpj"}, REL_6b78 |-> {"owner_id"}, PK_bb75 |-> {"id"}])
    \o AddForeignKey("enterprise_members", "FK_045a", Cascades("user_id", "users"))
    \o AddForeignKey("enterprise_members", "FK_9b88", Cascades("condominium_id", "condominiums"))
    \o AddForeignKey("condominium_members", "FK_8300", Cascades("condominium_id", "condominiums"))
    \o AddForeignKey("condominium_members", "FK_14cd", Cascades("user_id", "users"))
    \o AddForeignKey("invites", "FK_42d7", Cascades("condominium_id", "condominiums"))
    \o AddForeignKey("invites", "FK_dce1", Cascades("member_id", "condominium_members"))
    \o AddForeignKey("condominiums", "FK_6b78", References("owner_id", "users", "no action", "no action"))

FirstDown ==
    DropConstraints("condominiums", <<"FK_6b78">>)
    \o DropConstraints("invites", <<"FK_dce1", "FK_42d7">>)
    \o DropConstraints("condominium_members", <<"FK_14cd", "FK_8300">>)
    \o DropConstraints("enterprise_members", <<"FK_9b88", "FK_045a">>)
    \o DropTables(<<"condominiums", "invites", "condominium_members", "users", "enterprise_members">>)

AddUniqueRegistriesUp ==
    DropConstraints("condominium_members", <<"FK_8300", "FK_14cd">>)
    \o DropConstraints("invites", <<"FK_42d7", "FK_dce1">>)
    \o DropConstraints("condominiums", <<"FK_6b78">>)
    \o DropConstraints("condominium_members", <<"UQ_1555", "UQ_284e", "UQ_7fa9">>)
    \o DropConstraints("invites", <<"UQ_e2e4", "UQ_aaed">>)
    \o RenameColumn("users", "email", "unique_registry_id") \o RenameKey("users", "UQ_9767", "UQ_9a2c")
    \o RenameColumn("invites", "id", "member") \o RenameKey("invites", "PK_aa52", "PK_f9ea")
    \o CreateTable("unique_registries", [id |-> "uuid=", cpf |-> "bigint?", email |-> "varchar320"],
        [UQ_email |-> {"email"}, PK_registry |-> {"id"}])
    \o CreateTable("community_infos", [member_id |-> "uuid"], [PK_edca |-> {"member_id"}])
    \o DropColumns("condominium_members", <<"cpf", "c_email", "apartment_number", "block", "auto_edit">>)
    \o AddColumn("condominium_members", "role", "smallint=")
    \o AddColumn("condominium_members", "unique_registry_id", "uuid")
    \o RetypeUsersColumn("uuid") \o Retype("invites", "member", "varchar", "PK_f9ea")
    \o AddKey("condominium_members", "UQ_members", {"user_id", "condominium_id"})
    \o AddKey("invites", "UQ_invites", {"recipient", "condominium_id"})
    \o AddForeignKey("users", "FK_users_registry_id", Cascades("unique_registry_id", "unique_registries"))
    \o AddForeignKey("community_infos", "FK_infos_member_id", Cascades("member_id", "condominium_members"))
    \o AddForeignKey("condominium_members", "FK_members_registry_id", Cascades("unique_registry_id", "unique_registries"))
    \o AddForeignKey("condominium_members", "FK_members_condominium_id", Cascades("condominium_id", "condominiums"))
    \o AddForeignKey("condominium_members", "FK_members_user_id", Cascades("user_id", "users"))
    \o AddForeignKey("invites", "FK_invites_member_id", References("member_id", "condominium_members", "cascade", "cascade"))
    \o AddForeignKey("invites", "FK_invites_condominium_id", Cascades("condominium_id", "condominiums"))
    \o AddForeignKey("condominiums", "FK_owner_id", Cascades("owner_id", "users"))

AddUniqueRegistriesDown ==
    DropConstraints("condominiums", <<"FK_owner_id">>)
    \o DropConstraints("invites", <<"FK_invites_condominium_id", "FK_invites_member_id">>)
    \o DropConstraints("condominium_members", <<"FK_members_user_id", "FK_members_condominium_id", "FK_members_registry_id">>)
    \o DropConstraints("community_infos", <<"FK_infos_member_id">>)
    \o DropConstraints("users", <<"FK_users_registry_id">>)
    \o DropConstraints("invites", <<"UQ_invites">>) \o DropConstraints("condominium_members", <<"UQ_members">>)
    \o Retype("invites", "member", "uuid=", "PK_f9ea") \o RetypeUsersColumn("varchar320")
    \o DropColumns("condominium_members", <<"unique_registry_id", "role">>)
    \o AddColumn("condominium_members", "auto_edit", "smallint=")
    \o AddColumn("condominium_members", "block", "varchar6?")
    \o AddColumn("condominium_members", "apartment_number", "int?")
    \o AddColumn("condominium_members", "c_email", "varchar320")
    \o AddColumn("condominium_members", "cpf", "bigint")
    \o DropTables(<<"community_infos", "unique_registries">>)
    \o RenameKey("invites", "PK_f9ea", "PK_aa52") \o RenameColumn("invites", "member", "id")
    \o RenameKey("users", "UQ_9a2c", "UQ_9767") \o RenameColumn("users", "unique_registry_id", "email")
    \o AddKey("invites", "UQ_aaed", {"condominium_id", "member_id"})
    \o AddKey("invites", "UQ_e2e4", {"recipient", "condominium_id"})
    \o AddKey("condominium_members", "UQ_7fa9", {"condominium_id", "user_id"})
    \o AddKey("condominium_members", "UQ_284e", {"c_email", "condominium_id"})
    \o AddKey("condominium_members", "UQ_1555", {"cpf", "condominium_id"})
    \o AddForeignKey("condominiums", "FK_6b78", References("owner_id", "users", "no action", "no action"))
    \o AddForeignKey("invites", "FK_dce1", Cascades("member_id", "condominium_members"))
    \o AddForeignKey("invites", "FK_42d7", Cascades("condominium_id", "condominiums"))
    \o AddForeignKey("condominium_members", "FK_14cd", Cascades("user_id", "users"))
    \o AddForeignKey("condominium_members", "FK_8300", Cascades("condominium_id", "condominiums"))

-----------------------------------------------------------------------------
(* The history for CockroachDB (production).                               *)

FirstProdUp ==
    CreateTable("unique_registries", [id |-> "uuid=", cpf |-> "bigint?", email |-> "varchar320"],
        [UQ_email |-> {"email"}, PK_registry |-> {"id"}])
    \o CreateTable("users", [id |-> "uuid=", unique_registry_id |-> "uuid"],
        [REL_9a2c |-> {"unique_registry_id"}, PK_users |-> {"id"}])
    \o CreateTable("community_infos", [member_id |-> "uuid"], [PK_edca |-> {"member_id"}])
    \o CreateTable("condominium_members",
        [id |-> "uuid=", role |-> "smallint=", unique_registry_id |-> "uuid", condominium_id |-> "uuid", user_id |-> "uuid?"],
        [UQ_members |-> {"user_id", "condominium_id"}, PK_members |-> {"id"}])
    \o CreateTable("invites",
        [member |-> "varchar", recipient |-> "varchar320", member_id |-> "uuid", condominium_id |-> "uuid"],
        [UQ_invites |-> {"recipient", "condominium_id"}, REL_dce1 |-> {"member_id"}, PK_invites |-> {"member"}])
    \o CreateTable("condominiums",
        [id |-> "uuid=", name |-> "varchar120", cep |-> "bigint", cnpj |-> "bigint", owner_id |-> "uuid"],
        [UQ_cep |-> {"cep"}, UQ_cnpj |-> {"cnpj"}, UQ_name |-> {"name"}, REL_6b78 |-> {"owner_id"}, PK_condos |-> {"id"}])
    \o AddForeignKey("users", "FK_users_registry_id", Cascades("unique_registry_id", "unique_registries"))
    \o AddForeignKey("community_infos", "FK_infos_member_id", Cascades("member_id", "condominium_members"))
    \o AddForeignKey("condominium_members", "FK_members_registry_id", Cascades("unique_registry_id", "unique_registries"))
    \o AddForeignKey("condominium_members", "FK_members_condominium_id", Cascades("condominium_id", "condominiums"))
    \o AddForeignKey("condominium_members", "FK_members_user_id", Cascades("user_id", "users"))
    \o AddForeignKey("invites", "FK_invites_member_id", References("member_id", "condominium_members", "cascade", "cascade"))
    \o AddForeignKey("invites", "FK_invites_condominium_id", Cascades("condominium_id", "condominiums"))
    \o AddForeignKey("condominiums", "FK_owner_id", References("owner_id", "users", "no action", "no action"))

FirstProdDown ==
    DropConstraints("condominiums", <<"FK_owner_id">>)
    \o DropConstraints("invites", <<"FK_invites_condominium_id", "FK_invites_member_id">>)
    \o DropConstraints("condominium_members", <<"FK_members_user_id", "FK_members_condominium_id", "FK_members_registry_id">>)
    \o DropConstraints("community_infos", <<"FK_infos_member_id">>)
    \o DropConstraints("users", <<"FK_users_registry_id">>)
    \o DropTables(<<"condominiums", "invites", "condominium_members", "community_infos", "users", "unique_registries">>)

\* The slip repeats the action of the key it replaces.
AddCascadeDeletionUp_Mut ==
    DropConstraints("condominiums", <<"FK_owner_id">>)
    \o AddForeignKey("condominiums", "FK_owner_id", References("owner_id", "users", "no action", "no action"))

AddCascadeDeletionUp ==
    DropConstraints("condominiums", <<"FK_owner_id">>)
    \o AddForeignKey("condominiums", "FK_owner_id", Cascades("owner_id", "users"))

\* The slip undoes nothing.
AddCascadeDeletionDown_Mut == AddCascadeDeletionUp

AddCascadeDeletionDown ==
    DropConstraints("condominiums", <<"FK_owner_id">>)
    \o AddForeignKey("condominiums", "FK_owner_id", References("owner_id", "users", "no action", "no action"))

Migrations(h) ==
    IF h = "postgres"
    THEN <<[up |-> FirstUp, down |-> FirstDown], [up |-> AddUniqueRegistriesUp, down |-> AddUniqueRegistriesDown]>>
    ELSE <<[up |-> FirstProdUp, down |-> FirstProdDown], [up |-> AddCascadeDeletionUp, down |-> AddCascadeDeletionDown]>>

-----------------------------------------------------------------------------
(* What a statement does to the schema it finds, and what stops it.        *)

EmptySchema == [cols |-> EmptyTable, keys |-> EmptyTable, fks |-> EmptyTable]

Renamed(f, old, new) == With(Without(f, {old}), Row(new, f[old]))

Apply(s, st) ==
    LET t == st.table
        KeysOn(col) == {k \in DOMAIN s.keys[t] : col \in s.keys[t][k]}
        FksOn(col) == {k \in DOMAIN s.fks : s.fks[k].table = t /\ s.fks[k].fk.col = col}
        Swap(cols, old, new) == IF old \in cols THEN (cols \ {old}) \cup {new} ELSE cols
    IN CASE st.op = "create table" ->
              [s EXCEPT !.cols = With(@, Row(t, st.cols)), !.keys = With(@, Row(t, st.keys))]
         [] st.op = "drop table" ->
              [cols |-> Without(s.cols, {t}), keys |-> Without(s.keys, {t}),
               fks |-> Without(s.fks, {k \in DOMAIN s.fks : s.fks[k].table = t})]
         [] st.op = "add column" -> [s EXCEPT !.cols[t] = With(@, Row(st.col, st.type))]
         [] st.op = "drop column" ->
              [s EXCEPT !.cols[t] = Without(@, {st.col}), !.keys[t] = Without(@, KeysOn(st.col)),
                        !.fks = Without(@, FksOn(st.col))]
         [] st.op = "rename column" ->
              [s EXCEPT !.cols[t] = Renamed(@, st.col, st.new),
                        !.keys[t] = [k \in DOMAIN @ |-> Swap(@[k], st.col, st.new)],
                        !.fks = [k \in DOMAIN @ |-> IF k \in FksOn(st.col)
                                                    THEN [@[k] EXCEPT !.fk.col = st.new] ELSE @[k]]]
         [] st.op = "rename key" -> [s EXCEPT !.keys[t] = Renamed(@, st.name, st.new)]
         [] st.op = "add key" -> [s EXCEPT !.keys[t] = With(@, Row(st.name, st.cols))]
         [] st.op = "add foreign key" ->
              [s EXCEPT !.fks = With(@, Row(st.name, [table |-> t, fk |-> st.fk]))]
         [] st.op = "drop constraint" ->
              [s EXCEPT !.keys[t] = Without(@, {st.name}), !.fks = Without(@, {st.name})]

\* A statement finds what it names, NOT NULL columns without a default need a
\* table without rows, and foreign keys need the rows they refer to.
Allowed(s, full, st) ==
    LET t == st.table
        Has(col) == col \in DOMAIN s.cols[t]
    IN IF st.op = "create table" THEN t \notin DOMAIN s.cols
       ELSE /\ t \in DOMAIN s.cols
            /\ CASE st.op = "drop table" ->
                      \A k \in DOMAIN s.fks : s.fks[k].fk.to = t => s.fks[k].table = t
                 [] st.op = "add column" ->
                      ~Has(st.col) /\ (t \in full => st.type \in Nullable \cup Defaulted)
                 [] st.op = "drop column" -> Has(st.col)
                 [] st.op = "rename column" -> Has(st.col) /\ ~Has(st.new)
                 [] st.op = "rename key" ->
                      st.name \in DOMAIN s.keys[t] /\ st.new \notin DOMAIN s.keys[t]
                 [] st.op = "add key" -> st.name \notin DOMAIN s.keys[t] /\ \A c \in st.cols : Has(c)
                 [] st.op = "add foreign key" ->
                      /\ st.name \notin DOMAIN s.fks /\ Has(st.fk.col)
                      /\ \E k \in DOMAIN s.keys[st.fk.to] : s.keys[st.fk.to][k] = {"id"}
                      /\ t \in full /\ s.cols[t][st.fk.col] \notin Nullable => st.fk.to \in full
                 [] st.op = "drop constraint" -> st.name \in DOMAIN s.keys[t] \cup DOMAIN s.fks

\* The tables that nobody else writes to until the transaction ends: the one
\* the statement alters, and the one its foreign key refers to.
LockedBy(s, st) ==
    {st.table} \cup
    (IF st.op = "add foreign key" THEN {st.fk.to}
     ELSE IF st.op = "drop constraint" THEN {s.fks[k].fk.to : k \in DOMAIN s.fks \cap {st.name}} ELSE {})

\* The tables that lose values with the statement.
LostBy(full, st) == IF st.op \in {"drop table", "drop column"} THEN {st.table} \cap full ELSE {}

-----------------------------------------------------------------------------
(* The commands.                                                           *)

Init ==
    /\ history \in {"postgres", "cockroach"}
    /\ executed = 0
    /\ schema = EmptySchema
    /\ rows = {}
    /\ tx = Idle

\* The statements that lead from one number of executed migrations to another.
Plan(h, from, to) ==
    IF to < from THEN Migrations(h)[from].down
    ELSE FlattenSeq([i \in 1..(to - from) |-> Migrations(h)[from + i].up])

Begin(to) ==
    /\ tx = Idle
    /\ tx' = [to |-> to, at |-> 1, schema |-> schema, locked |-> {}, lost |-> {}]
    /\ UNCHANGED <<history, executed, schema, rows>>

\* migrate:run executes all pending migrations.
MigrateRun == executed < Len(Migrations(history)) /\ Begin(Len(Migrations(history)))

\* migrate:revert undoes the last executed migration.
MigrateRevert == executed > 0 /\ Begin(executed - 1)

RunStatement ==
    /\ tx # Idle
    /\ LET plan == Plan(history, executed, tx.to)
           full == rows \cap DOMAIN tx.schema.cols
       IN /\ tx.at <= Len(plan)
          /\ Allowed(tx.schema, full, plan[tx.at])
          /\ tx' = [tx EXCEPT !.at = @ + 1,
                              !.schema = Apply(@, plan[tx.at]),
                              !.locked = @ \cup LockedBy(tx.schema, plan[tx.at]),
                              !.lost = @ \cup LostBy(full, plan[tx.at])]
    /\ UNCHANGED <<history, executed, schema, rows>>

Commit ==
    /\ tx # Idle
    /\ tx.at > Len(Plan(history, executed, tx.to))
    /\ executed' = tx.to
    /\ schema' = tx.schema
    /\ rows' = rows \cap DOMAIN tx.schema.cols
    /\ tx' = Idle
    /\ UNCHANGED history

\* A statement fails, or the command is stopped.
Rollback ==
    /\ tx # Idle
    /\ tx' = Idle
    /\ UNCHANGED <<history, executed, schema, rows>>

\* Rows come and go; each has the rows that its NOT NULL foreign keys name.
Traffic ==
    /\ \E r \in SUBSET DOMAIN schema.cols :
        LET Parents(t) == {schema.fks[k].fk.to : k \in {j \in DOMAIN schema.fks : schema.fks[j].table = t}}
            Children(t) == {schema.fks[k].table : k \in {j \in DOMAIN schema.fks : schema.fks[j].fk.to = t}}
            Locked == IF tx = Idle THEN {} ELSE tx.locked
        IN /\ \A k \in DOMAIN schema.fks :
                LET f == schema.fks[k]
                IN f.table \in r /\ schema.cols[f.table][f.fk.col] \notin Nullable => f.fk.to \in r
           /\ \A t \in r \ rows : ({t} \cup Parents(t)) \cap Locked = {}
           /\ \A t \in rows \ r : ({t} \cup Children(t)) \cap Locked = {}
           /\ rows' = r
    /\ UNCHANGED <<history, executed, schema, tx>>

Next == MigrateRun \/ MigrateRevert \/ RunStatement \/ Commit \/ Rollback \/ Traffic

Spec == Init /\ [][Next]_vars

-----------------------------------------------------------------------------
(* What the entities declare.                                              *)

EntityColumns ==
    [unique_registries |-> {"id", "cpf", "email"},
     users |-> {"id", "unique_registry_id"},
     condominiums |-> {"id", "name", "cep", "cnpj", "owner_id"},
     condominium_members |-> {"id", "role", "unique_registry_id", "condominium_id", "user_id"},
     community_infos |-> {"member_id"},
     invites |-> {"member", "recipient", "member_id", "condominium_id"}]

EntityNullables == {<<"unique_registries", "cpf">>, <<"condominium_members", "user_id">>}

EntityKeys ==
    [unique_registries |-> {{"id"}, {"email"}},
     users |-> {{"id"}, {"unique_registry_id"}},
     condominiums |-> {{"id"}, {"name"}, {"cnpj"}, {"cep"}, {"owner_id"}},
     condominium_members |-> {{"id"}, {"user_id", "condominium_id"}},
     community_infos |-> {{"member_id"}},
     invites |-> {{"member"}, {"member_id"}, {"recipient", "condominium_id"}}]

EntityForeignKeys ==
    [unique_registries |-> {},
     users |-> {Cascades("unique_registry_id", "unique_registries")},
     condominiums |-> {Cascades("owner_id", "users")},
     condominium_members |-> {Cascades("unique_registry_id", "unique_registries"),
                              Cascades("condominium_id", "condominiums"), Cascades("user_id", "users")},
     community_infos |-> {Cascades("member_id", "condominium_members")},
     invites |-> {References("member_id", "condominium_members", "cascade", "cascade"),
                  Cascades("condominium_id", "condominiums")}]

-----------------------------------------------------------------------------
(* Properties.                                                             *)

\* Whatever was run, reverted, stopped and run again, the committed schema is
\* the one that the executed migrations build from nothing: each down undoes
\* exactly what its up does, and nothing of a stopped command remains.
SchemaIsThatOfItsMigrations ==
    schema = FoldLeft(Apply, EmptySchema, Plan(history, 0, executed))

\* With all migrations of either history executed, the tables of the entities
\* have the columns, keys and cascades that the entities declare (and
\* InsertCondominium, DeleteRows, ... of CondominiumRegistry rely on).
MigratedSchemaFitsTheEntities ==
    executed = Len(Migrations(history)) =>
        \A t \in DOMAIN EntityColumns :
            /\ DOMAIN schema.cols[t] = EntityColumns[t]
            /\ {schema.keys[t][k] : k \in DOMAIN schema.keys[t]} = EntityKeys[t]
            /\ {schema.fks[k].fk : k \in {j \in DOMAIN schema.fks : schema.fks[j].table = t}} = EntityForeignKeys[t]
            /\ \A col \in EntityColumns[t] :
                schema.cols[t][col] \in Nullable <=> <<t, col>> \in EntityNullables

\* migrate:run never costs a value: the columns that AddUniqueRegistries drops
\* are gone only where no table had rows, because its NOT NULL columns without
\* defaults stop it otherwise, also when rows arrive while it is executed.
\* Undoing a later migration costs at most registries (of people without an
\* account and without a membership); only undoing the first drops the rest.
OnlyUndoingLosesValues ==
    [][/\ executed' > executed => tx.lost = {}
       /\ executed' < executed /\ executed' > 0 => tx.lost \subseteq {"unique_registries"}]_vars
=============================================================================
