SPECIFICATION Spec
INVARIANTS
    NoStatementIsRefused
    SchemaIsOfApplied
    SchemaIsOfEntities
