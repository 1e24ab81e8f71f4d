SPECIFICATION Spec
CONSTANTS
  simple = simple
  text = text
  overlay = overlay
  n1 = n1
  n2 = n2
  n3 = n3
  n4 = n4
  ShaderPrograms <- MCShaderPrograms
  Names <- MCNames
  invalid_handle = invalid_handle
  NoObject = NoObject
INVARIANTS
  HandlesOwned
  NoOrphans
  OkMeansLinked
  UniformsLandHome
