SPECIFICATION Spec
CONSTANTS
  BaseSize = 2
  GroupBits = 1
  WidthBits = 3
  Datas <- MCDatas
  Numbers <- MCNumbers
  FieldSizes = {1, 2}
  Heap = {0}
  MaxBlocks = 3
VIEW MCView
INVARIANTS TypeOK CursorInPlace ReadBack
PROPERTIES Refines
