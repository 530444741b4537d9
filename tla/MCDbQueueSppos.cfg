SPECIFICATION DeclaredSpec
CONSTANTS
  Cells <- MCCells
  MhtNodes <- MCMhtNodes
  m_level <- MCLevel
  NULL = NULL
  c1 = c1
  c2 = c2
  c3 = c3
  c4 = c4
  c5 = c5
  n1 = n1
  n2 = n2
  n3 = n3
  n4 = n4
SYMMETRY FewRenamings
PROPERTY
  PositionIsRemoved
