\* Four keys, all 256 hash functions, up to three keys in four slots.
SPECIFICATION Spec
CONSTANTS
  k1 = k1
  k2 = k2
  k3 = k3
  k4 = k4
  Keys = {k1, k2, k3, k4}
  Values = {1, 2}
  Capacity = 4
  MaxKeys = 3
SYMMETRY KeySymmetry
PROPERTIES ImplementsDictionary
