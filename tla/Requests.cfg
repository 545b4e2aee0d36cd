SPECIFICATION Spec
CONSTANTS
  Mounts <- ApiMounts
  Controllers <- ApiControllers
  Callers <- Roles
  Nil = Nil
INVARIANT AuditedUnderItsResource
