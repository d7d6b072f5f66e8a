SPECIFICATION Spec
CONSTANT Idle = Idle
INVARIANTS
    SchemaIsThatOfItsMigrations
    MigratedSchemaFitsTheEntities
PROPERTY OnlyUndoingLosesValues
