SPECIFICATION Spec
CONSTANTS
  users = users
  posts = posts
  id = id
  author = author
  fk1 = fk1
  PKey = PKey
  TableNames = {users, posts}
  ColumnNames = {id, author}
  ConstraintNames = {fk1}
  MaxStatements = 4
  MaxKeys = 2
  CreateNames <- NoNames
SYMMETRY Renamings
CHECK_DEADLOCK FALSE
INVARIANTS
  TablesAgree
  NoForeignKeyLost
  KeysAgree
