SPECIFICATION Spec
CONSTANTS
  p1 = p1
  p2 = p2
  js = js
  scss = scss
  page = page
  Procs <- MCProcs
  Commands <- MCCommands
  Entries <- MCEntries
  Rank <- MCRank
  Output <- MCOutput
  Sass <- MCSass
  Templates <- MCTemplates
  Html <- MCHtml
  MaxChanges = 1
SYMMETRY MCSymmetry
PROPERTIES
  BundleFaithful
  SwaggerWhole
  DockerComplete
